---- MODULE Spec2Model ----
(***************************************************************************)
(* A model of SimRaceStrategist's live-telemetry core:                     *)
(*   - _Debounce              (app/f1_udp.py, 0.3.1)                       *)
(*   - RainEngine.update      (app/rain_engine.py, 0.1.6)                  *)
(*   - F1UDPListener          (app/f1_udp.py, 0.3.1)                       *)
(*                                                                         *)
(* Conventions.  Python's None is the empty sequence and a present value   *)
(* v is <<v>>.  Wall-clock and monotonic time are counted in ticks of      *)
(* 0.1 s.  Real-valued scores are fixed-point numbers with FP units per    *)
(* 1.0; lap times are integer milliseconds as on the wire.                 *)
(***************************************************************************)
EXTENDS Integers, Sequences, FiniteSets, TLC

None == <<>>
Some(v) == <<v>>
IsNone(o) == o = <<>>
IsSome(o) == o # <<>>
Val(o) == o[1]

\* F applied to the value of x, with x evaluated once.
Bind(x, F(_)) == CHOOSE y \in {F(v) : v \in {x}} : TRUE

Max2(a, b) == IF a >= b THEN a ELSE b
Min2(a, b) == IF a <= b THEN a ELSE b

(***************************************************************************)
(* _Debounce                                                               *)
(***************************************************************************)

\* The two parameterisations the program constructs: the constructor's
\* defaults (n=5, max_age_s=1.0) and the listener's four instances
\* (n=6, max_age_s=0.7).  max_age is in ticks of 0.1 s.
DebDefaultN == 5
DebDefaultMaxAge == 10
DebListenerN == 6
DebListenerMaxAge == 7

\* _Debounce.__init__
DebNew(n, max_age) ==
    [n |-> n, max_age |-> max_age, candidate |-> None, count |-> 0, t0 |-> 0]

\* The threshold test of _Debounce.update (line 102).
DebAcceptMutGt(d, count, now) ==
    count > d.n \/ (now - d.t0) >= d.max_age

DebAccept(d, count, now) ==
    count >= d.n \/ (now - d.t0) >= d.max_age

\* A debouncer that returns a new candidate at once.
DebUpdateMutFirstSight(d, value, now) ==
    [d   |-> [d EXCEPT !.candidate = Some(value),
                       !.count = IF Some(value) # d.candidate THEN 1 ELSE d.count + 1,
                       !.t0 = IF Some(value) # d.candidate THEN now ELSE d.t0],
     ret |-> Some(value)]

\* _Debounce.update(value) called at wall time `now`: the new debouncer
\* state and the returned value (None or the candidate).
DebUpdate(d, value, now) ==
    IF Some(value) # d.candidate
    THEN [d   |-> [d EXCEPT !.candidate = Some(value), !.count = 1, !.t0 = now],
          ret |-> None]
    ELSE [d   |-> [d EXCEPT !.count = d.count + 1],
          ret |-> IF DebAccept(d, d.count + 1, now) THEN d.candidate ELSE None]

\* Bounds of the debouncer specification: update() calls, and ticks
\* between two calls.
MaxDebUpdates == 8
MaxDt == 3
DebValues == {0, 1}

VARIABLES
    deb,          \* the _Debounce instance under test
    deb_n,        \* update() calls so far
    wall,         \* time.time(), in ticks
    deb_ret,      \* what the last update() returned
    run_val,      \* the reading of the last update (None before the first)
    run_len,      \* length of the current run of identical readings
    run_start,    \* wall time of the run's first reading
    run_fast,     \* every update of the run fell inside max_age of run_start
    run_emits     \* updates of the current run that returned a value

debVars == <<deb, deb_n, wall, deb_ret, run_val, run_len, run_start, run_fast, run_emits>>

InitDeb ==
    /\ deb \in {DebNew(DebDefaultN, DebDefaultMaxAge),
                DebNew(DebListenerN, DebListenerMaxAge)}
    /\ deb_n = 0
    /\ wall = 0
    /\ deb_ret = None
    /\ run_val = None
    /\ run_len = 0
    /\ run_start = 0
    /\ run_fast = TRUE
    /\ run_emits = 0

\* One call of update(v), dt ticks after the previous call.
DebStep ==
    \E v \in DebValues, dt \in 0..MaxDt :
        /\ deb_n < MaxDebUpdates
        /\ deb_n' = deb_n + 1
        /\ LET now == wall + dt
               r == DebUpdate(deb, v, now)
               same == run_val = Some(v)
               start == IF same THEN run_start ELSE now
           IN /\ wall' = now
              /\ deb' = r.d
              /\ deb_ret' = r.ret
              /\ run_val' = Some(v)
              /\ run_len' = IF same THEN run_len + 1 ELSE 1
              /\ run_start' = start
              /\ run_fast' = ((IF same THEN run_fast ELSE TRUE)
                              /\ (now - start) < deb.max_age)
              /\ run_emits' = (IF same THEN run_emits ELSE 0)
                              + (IF IsSome(r.ret) THEN 1 ELSE 0)

(***************************************************************************)
(* RainEngine                                                              *)
(*                                                                         *)
(* Scores, shares and thresholds are fixed-point with FP units per 1.0;    *)
(* pace deltas are in 1/FP seconds; rain is in percent; track temperature  *)
(* in degrees C; time.time() in whole seconds.  A median is carried        *)
(* doubled (Median2) so that the mean of two middle samples stays exact;   *)
(* each quotient is floored to 1/FP.                                       *)
(***************************************************************************)
FP == 10000

\* RainEngine.__init__ defaults
window_s == 20
min_samples == 4
on_th == 6500
off_th == 3500
hold_on_updates == 2
hold_off_updates == 3
wet_on_th == 7800
wet_off_th == 5500
wet_hold_on_updates == 2
wet_hold_off_updates == 3

\* _clamp01
Clamp01(x) == IF x < 0 THEN 0 ELSE IF x > FP THEN FP ELSE x

\* The values of a deque of (t, value) samples.
Vals(dq) == [i \in 1..Len(dq) |-> dq[i][2]]

\* Twice statistics.median(xs), for a non-empty sequence.
Median2(xs) ==
    LET n == Len(xs)
        ss == SortSeq(xs, LAMBDA a, b : a < b)
    IN IF n % 2 = 1 THEN 2 * ss[(n + 1) \div 2]
       ELSE ss[n \div 2] + ss[n \div 2 + 1]

\* _median of a deque's values, doubled; None for an empty deque.
MedOf(dq) == IF dq = <<>> THEN None ELSE Some(Median2(Vals(dq)))

\* The pruning loop of _push: pop from the left while older than cutoff.
RECURSIVE PruneLeft(_, _)
PruneLeft(dq, cutoff) ==
    IF dq # <<>> /\ dq[1][1] < cutoff THEN PruneLeft(Tail(dq), cutoff) ELSE dq

\* RainEngine._push: a None value returns before anything is appended or
\* pruned.
Push(dq, t, v) ==
    IF IsNone(v) THEN dq
    ELSE PruneLeft(Append(dq, <<t, Val(v)>>), t - window_s)

\* RainEngine._fc_time_to_below / _fc_time_to_above: the offset of the first
\* sample (in list order) with rain <= / >= threshold.
RECURSIVE FcTimeToBelow(_, _)
FcTimeToBelow(fc, threshold) ==
    IF fc = <<>> THEN None
    ELSE IF fc[1][2] <= threshold THEN Some(fc[1][1])
    ELSE FcTimeToBelow(Tail(fc), threshold)

RECURSIVE FcTimeToAbove(_, _)
FcTimeToAbove(fc, threshold) ==
    IF fc = <<>> THEN None
    ELSE IF fc[1][2] >= threshold THEN Some(fc[1][1])
    ELSE FcTimeToAbove(Tail(fc), threshold)

\* drying_soon / heavy_incoming (lines 150-157)

DryingSoon(fc) ==
    LET t == FcTimeToBelow(fc, 25) IN IsSome(t) /\ Val(t) <= 15

HeavyIncoming(fc) ==
    LET t == FcTimeToAbove(fc, 60) IN IsSome(t) /\ Val(t) <= 10

\* RainEngine.__init__: empty deques, both modes off, counters 0.
RainNew ==
    [inter_share |-> <<>>, delta_is |-> <<>>, rain_next |-> <<>>,
     track_temp |-> <<>>, weather |-> <<>>, wet_share |-> <<>>,
     delta_wi |-> <<>>,
     is_wet_mode |-> FALSE, on_counter |-> 0, off_counter |-> 0,
     is_fullwet_mode |-> FALSE, wet_on_counter |-> 0, wet_off_counter |-> 0]

\* The seven _push calls of update (lines 122-128).
PushAll(e, st, now) ==
    [e EXCEPT !.inter_share = Push(@, now, st.inter_share),
              !.delta_is    = Push(@, now, st.delta_is),
              !.rain_next   = Push(@, now, st.rain_fc_pct),
              !.track_temp  = Push(@, now, st.track_temp_c),
              !.weather     = Push(@, now, st.weather),
              !.wet_share   = Push(@, now, st.wet_share),
              !.delta_wi    = Push(@, now, st.delta_wi)]

\* The seven medians of update (lines 132-138), each doubled, None for an
\* empty deque.
Medians(e) ==
    [inter_share |-> MedOf(e.inter_share), delta_is |-> MedOf(e.delta_is),
     rain_next |-> MedOf(e.rain_next), track_temp |-> MedOf(e.track_temp),
     weather |-> MedOf(e.weather), wet_share |-> MedOf(e.wet_share),
     delta_wi |-> MedOf(e.delta_wi)]

\* int(weather_med): the median truncated (weather is never negative).
WeatherInt(m) == Val(m.weather) \div 2

\* s0: the weather hint (lines 170-181)
S0(m) ==
    IF IsNone(m.weather) THEN None
    ELSE LET w == WeatherInt(m)
         IN Some(IF w <= 2 THEN 0 ELSE IF w = 3 THEN 4500
                 ELSE IF w = 4 THEN 8000 ELSE 9500)

\* s1: field share, ramp 0.15 .. 0.50 (lines 185-187)
S1(m) ==
    IF IsNone(m.inter_share) THEN None
    ELSE Some(Clamp01(((Val(m.inter_share) - 2 * 1500) * FP) \div (2 * 3500)))

\* s2: delta I-S, ramp -0.5 s .. -2.5 s (lines 191-194)
S2(m) ==
    IF IsNone(m.delta_is) THEN None
    ELSE Some(Clamp01((((0 - Val(m.delta_is)) - 2 * 5000) * FP) \div (2 * 20000)))

\* s3: forecast rain, ramp 35 .. 70 percent (lines 197-199)
S3(m) ==
    IF IsNone(m.rain_next) THEN None
    ELSE Some(Clamp01(((Val(m.rain_next) - 2 * 35) * FP) \div (2 * 35)))

\* s4: the player's baseline loss (lines 164-166, 202-204); both inputs in
\* 1/FP seconds.
S4(expected_pace, your_last_lap_s) ==
    IF IsNone(expected_pace) \/ IsNone(your_last_lap_s) THEN None
    ELSE Some(Clamp01((((Val(your_last_lap_s) - Val(expected_pace)) - 7000) * FP)
                      \div 20000))

\* temp_boost (lines 207-210)
TempBoost(m) ==
    IF IsNone(m.track_temp) THEN 0
    ELSE (Clamp01(((2 * 22 - Val(m.track_temp)) * FP) \div (2 * 18)) * 8) \div 100

\* Weighted fusion of the available signals (lines 213-232, 263-280):
\* sigs is a sequence of <<signal, weight in 1/100>>; absent signals are
\* left out of numerator and denominator; no signal at all gives 0.
RECURSIVE FuseNum(_)
FuseNum(sigs) ==
    IF sigs = <<>> THEN 0
    ELSE (IF IsSome(sigs[1][1]) THEN Val(sigs[1][1]) * sigs[1][2] ELSE 0)
         + FuseNum(Tail(sigs))

RECURSIVE FuseDen(_)
FuseDen(sigs) ==
    IF sigs = <<>> THEN 0
    ELSE (IF IsSome(sigs[1][1]) THEN sigs[1][2] ELSE 0) + FuseDen(Tail(sigs))

Fuse(sigs) ==
    IF FuseDen(sigs) = 0 THEN 0 ELSE FuseNum(sigs) \div FuseDen(sigs)

\* The fused wetness before temperature boost, weather floor and SC boost
\* (lines 222-232).
FusedRaw(m, s4) ==
    Fuse(<< <<S0(m), 30>>, <<S2(m), 35>>, <<S1(m), 25>>, <<S3(m), 20>>, <<s4, 20>> >>)

\* under_sc (lines 297-298)
UnderSC(st) == st.safety_car_status \in {Some(1), Some(2)}

\* A fusion without the weather floor.
WeatherFloorMutNone(s0, w) == w

\* The weather floor (lines 236-238).
WeatherFloor(s0, w) == IF IsSome(s0) THEN Max2(w, Val(s0)) ELSE w

\* The final clamp of the boosted score (lines 234, 300).
ClampScoreMutId(x) == x

ClampScore(x) == Clamp01(x)

\* wetness as returned (lines 234-238, 299-300).
Wetness(m, st, s4) ==
    LET w1 == ClampScore(FusedRaw(m, s4) + TempBoost(m))
        w2 == WeatherFloor(S0(m), w1)
    IN IF UnderSC(st) THEN ClampScore(w2 + 600) ELSE w2

\* The full-wet partial scores (lines 241-261).
FW0(m) ==
    IF IsNone(m.weather) THEN None
    ELSE LET w == WeatherInt(m)
         IN Some(IF w <= 3 THEN 0 ELSE IF w = 4 THEN 7500 ELSE 9500)

FW1(m) ==
    IF IsNone(m.wet_share) THEN None
    ELSE Some(Clamp01(((Val(m.wet_share) - 2 * 500) * FP) \div (2 * 2500)))

FW2(m) ==
    IF IsNone(m.delta_wi) THEN None
    ELSE Some(Clamp01((((0 - Val(m.delta_wi)) - 2 * 2000) * FP) \div (2 * 13000)))

FW3(m) ==
    IF IsNone(m.rain_next) THEN None
    ELSE Some(Clamp01(((Val(m.rain_next) - 2 * 60) * FP) \div (2 * 30)))

\* fullwet / wet_score (lines 263-289).
FullWet(m, fc) ==
    LET fw0 == FW0(m)
        f1 == Fuse(<< <<fw0, 35>>, <<FW2(m), 35>>, <<FW1(m), 25>>, <<FW3(m), 20>> >>)
        f2 == IF IsSome(fw0) THEN Max2(f1, (Val(fw0) * 85) \div 100) ELSE f1
        f3 == Clamp01(f2)
    IN IF HeavyIncoming(fc) THEN Min2(FP, f3 + 1000) ELSE f3

\* confidence (lines 292-294, 301).
Confidence(e, m, st, s4) ==
    LET n_signals == (IF IsSome(m.inter_share) THEN 1 ELSE 0)
                     + (IF IsSome(m.delta_is) THEN 1 ELSE 0)
                     + (IF IsSome(m.rain_next) THEN 1 ELSE 0)
                     + (IF IsSome(s4) THEN 1 ELSE 0)
        n_samples == Len(e.rain_next) + Len(e.delta_is) + Len(e.inter_share)
        c == Clamp01(1500 + 2000 * n_signals
                     + (15 * Clamp01((n_samples * FP) \div (min_samples * 3))) \div 100)
    IN IF UnderSC(st) THEN Clamp01(c + 500) ELSE c

\* The score regime of a two-threshold machine.
Regime(score, hi, lo) ==
    IF score >= hi THEN "on" ELSE IF score <= lo THEN "off" ELSE "dead"

\* Counters that are reset, not decayed, between the thresholds.
WetCountersMutReset(e, wetness) ==
    IF wetness >= on_th
    THEN [e EXCEPT !.on_counter = @ + 1, !.off_counter = 0]
    ELSE IF wetness <= off_th
    THEN [e EXCEPT !.off_counter = @ + 1, !.on_counter = 0]
    ELSE [e EXCEPT !.on_counter = 0, !.off_counter = 0]

\* The wet-mode counters (lines 305-314).
WetCounters(e, wetness) ==
    IF wetness >= on_th
    THEN [e EXCEPT !.on_counter = @ + 1, !.off_counter = 0]
    ELSE IF wetness <= off_th
    THEN [e EXCEPT !.off_counter = @ + 1, !.on_counter = 0]
    ELSE [e EXCEPT !.on_counter = Max2(0, @ - 1), !.off_counter = Max2(0, @ - 1)]

\* The wet-mode flag (lines 316-319).
WetFlagMutNoHold(e) ==
    IF ~e.is_wet_mode /\ e.on_counter >= 1
    THEN [e EXCEPT !.is_wet_mode = TRUE]
    ELSE IF e.is_wet_mode /\ e.off_counter >= 1
    THEN [e EXCEPT !.is_wet_mode = FALSE] ELSE e

WetFlagMutLateOn(e) ==
    LET a == IF ~e.is_wet_mode /\ e.on_counter > hold_on_updates
             THEN [e EXCEPT !.is_wet_mode = TRUE] ELSE e
    IN IF a.is_wet_mode /\ a.off_counter >= hold_off_updates
       THEN [a EXCEPT !.is_wet_mode = FALSE] ELSE a

\* A flag that leaves wet-mode one update early.
WetFlagMutEarlyOff(e) ==
    LET a == IF ~e.is_wet_mode /\ e.on_counter >= hold_on_updates
             THEN [e EXCEPT !.is_wet_mode = TRUE] ELSE e
    IN IF a.is_wet_mode /\ a.off_counter >= hold_off_updates - 1
       THEN [a EXCEPT !.is_wet_mode = FALSE] ELSE a

WetFlag(e) ==
    LET a == IF ~e.is_wet_mode /\ e.on_counter >= hold_on_updates
             THEN [e EXCEPT !.is_wet_mode = TRUE] ELSE e
    IN IF a.is_wet_mode /\ a.off_counter >= hold_off_updates
       THEN [a EXCEPT !.is_wet_mode = FALSE] ELSE a

\* A full-wet machine that runs whatever the wet-mode flag is.
FullWetMachineMutUngated(e, fullwet) ==
    LET c == IF fullwet >= wet_on_th
             THEN [e EXCEPT !.wet_on_counter = @ + 1, !.wet_off_counter = 0]
             ELSE IF fullwet <= wet_off_th
             THEN [e EXCEPT !.wet_off_counter = @ + 1, !.wet_on_counter = 0]
             ELSE [e EXCEPT !.wet_on_counter = Max2(0, @ - 1),
                            !.wet_off_counter = Max2(0, @ - 1)]
        a == IF ~c.is_fullwet_mode /\ c.wet_on_counter >= wet_hold_on_updates
             THEN [c EXCEPT !.is_fullwet_mode = TRUE] ELSE c
    IN IF a.is_fullwet_mode /\ a.wet_off_counter >= wet_hold_off_updates
       THEN [a EXCEPT !.is_fullwet_mode = FALSE] ELSE a

\* The full-wet machine, run only while wet-mode is active (lines 322-340).
FullWetMachine(e, fullwet) ==
    IF e.is_wet_mode
    THEN LET c == IF fullwet >= wet_on_th
                  THEN [e EXCEPT !.wet_on_counter = @ + 1, !.wet_off_counter = 0]
                  ELSE IF fullwet <= wet_off_th
                  THEN [e EXCEPT !.wet_off_counter = @ + 1, !.wet_on_counter = 0]
                  ELSE [e EXCEPT !.wet_on_counter = Max2(0, @ - 1),
                                 !.wet_off_counter = Max2(0, @ - 1)]
             a == IF ~c.is_fullwet_mode /\ c.wet_on_counter >= wet_hold_on_updates
                  THEN [c EXCEPT !.is_fullwet_mode = TRUE] ELSE c
         IN IF a.is_fullwet_mode /\ a.wet_off_counter >= wet_hold_off_updates
            THEN [a EXCEPT !.is_fullwet_mode = FALSE] ELSE a
    ELSE [e EXCEPT !.is_fullwet_mode = FALSE, !.wet_on_counter = 0,
                   !.wet_off_counter = 0]

\* Both hysteresis machines (lines 303-340).
Hysteresis(e, wetness, fullwet) ==
    Bind(WetCounters(e, wetness), LAMBDA c :
        Bind(WetFlag(c), LAMBDA f : FullWetMachine(f, fullwet)))

\* (current_tyre or "").strip().upper() (line 343) on the tyre names fed in;
\* "" stands for a missing name as well.
TyreNorm(raw) ==
    CASE raw = "c4" -> "C4"
      [] raw = " inter" -> "INTER"
      [] raw = "Intermediate" -> "INTERMEDIATE"
      [] raw = "Wet" -> "WET"
      [] OTHER -> raw

\* Tyre-name tests of the advice block (lines 357-359), on the normalised
\* name.
IsSlickTyre(tyre) == tyre \in {"C1", "C2", "C3", "C4", "C5", "C6", "SLICK", "DRY"}
IsInterTyre(tyre) == tyre \in {"INTER", "INTERMEDIATE"}
IsWetTyre(tyre) == tyre \in {"WET"}

\* A stay() that drops its justification.
StayMutNoReason(reason) ==
    [action |-> "STAY OUT", target |-> None, laps |-> None, reason |-> ""]

\* Forecast overrides that never apply.
ForecastOverrideMutNone(advice, e, tyre, lr, fc, wetness, under_sc) == advice

\* stay() and box_in() (lines 346-351)
Stay(reason) ==
    [action |-> "STAY OUT", target |-> None, laps |-> None, reason |-> reason]

BoxIn(n, target, reason) ==
    LET m == Max2(1, n)
    IN [action |-> IF m = 1 THEN "BOX IN 1" ELSE "BOX IN 2",
        target |-> Some(target), laps |-> Some(m), reason |-> reason]

\* A slick advice that does not shorten the lead time under the safety car.
SlickAdviceMutNoSC(e, m, wetness, under_sc) ==
    IF e.is_wet_mode
    THEN IF IsSome(m.delta_is) /\ Val(m.delta_is) < 2 * (0 - 3000)
         THEN [action |-> "BOX IN 1", target |-> Some("Intermediate"),
               laps |-> Some(1), reason |-> "inter already faster"]
         ELSE IF wetness > 8000
         THEN [action |-> "BOX IN 1", target |-> Some("Intermediate"),
               laps |-> Some(1), reason |-> "wetness trend"]
         ELSE [action |-> "BOX IN 2", target |-> Some("Intermediate"),
               laps |-> Some(2), reason |-> "wetness trend"]
    ELSE [action |-> "STAY OUT", target |-> None, laps |-> None,
          reason |-> "wetness not high enough"]

\* The advice while on a slick compound (lines 361-371).
SlickAdvice(e, m, wetness, under_sc) ==
    IF e.is_wet_mode
    THEN IF IsSome(m.delta_is) /\ Val(m.delta_is) < 2 * (0 - 3000)
         THEN BoxIn(1, "Intermediate", "inter already faster")
         ELSE BoxIn(IF under_sc THEN 1 ELSE IF wetness > 8000 THEN 1 ELSE 2,
                    "Intermediate", "wetness trend")
    ELSE Stay("wetness not high enough")

\* The advice while on Inter / Wet / anything not slick (lines 372-395).
NonSlickAdvice(e, m, tyre, wet_score, under_sc) ==
    IF IsInterTyre(tyre) /\ e.is_fullwet_mode
    THEN IF IsSome(m.delta_wi) /\ Val(m.delta_wi) < 2 * (0 - 2000)
         THEN BoxIn(1, "Wet", "wet already faster")
         ELSE BoxIn(IF under_sc THEN 1 ELSE IF wet_score > 8500 THEN 1 ELSE 2,
                    "Wet", "rain intensity")
    ELSE IF IsWetTyre(tyre) /\ ~e.is_fullwet_mode /\ e.is_wet_mode
    THEN BoxIn(1, "Intermediate", "conditions easing")
    ELSE IF ~e.is_wet_mode /\ ~(IsSome(m.weather) /\ WeatherInt(m) >= 3)
    THEN IF /\ IsSome(m.rain_next) /\ Val(m.rain_next) < 2 * 25
            /\ IsSome(m.inter_share) /\ Val(m.inter_share) < 2 * 2000
         THEN BoxIn(1, "C4", "drying: low forecast and share")
         ELSE BoxIn(2, "C4", "drying trend")
    ELSE IF IsWetTyre(tyre) THEN Stay("stay on wet") ELSE Stay("stay on inter")

\* The two forecast overrides (lines 397-401).  They sit inside the branch
\* for a tyre that is not slick (the else of line 372).
ForecastOverride(advice, e, tyre, lr, fc, wetness, under_sc) ==
    LET a1 == IF DryingSoon(fc) /\ ~under_sc /\ lr > 3
              THEN Stay("forecast: drying soon") ELSE advice
    IN IF IsSlickTyre(tyre) /\ e.is_wet_mode /\ DryingSoon(fc) /\ wetness < 8000
          /\ ~under_sc
       THEN Stay("forecast: rain phase short") ELSE a1

\* An advice block that only stops advising with no lap left.
AdviceMutZeroLaps(e, m, tyre, laps_remaining, fc, wetness, wet_score, under_sc) ==
    LET lr == Max2(0, laps_remaining)
    IN IF lr < 1 THEN [action |-> "STAY OUT", target |-> None, laps |-> None,
                       reason |-> "<=1 lap remaining"]
       ELSE IF tyre \in {"C1", "C2", "C3", "C4", "C5", "C6", "SLICK", "DRY"}
       THEN IF e.is_wet_mode
            THEN [action |-> "BOX IN 2", target |-> Some("Intermediate"),
                  laps |-> Some(2), reason |-> "wetness trend"]
            ELSE [action |-> "STAY OUT", target |-> None, laps |-> None,
                  reason |-> "wetness not high enough"]
       ELSE [action |-> "BOX IN 2", target |-> Some("C4"), laps |-> Some(2),
             reason |-> "drying trend"]

\* The advice block (lines 342-401); e is the engine after the hysteresis
\* step of the same update, m the medians.
Advice(e, m, tyre, laps_remaining, fc, wetness, wet_score, under_sc) ==
    LET lr == Max2(0, laps_remaining)
    IN IF lr <= 1 THEN Stay("<=1 lap remaining")
       ELSE IF IsSlickTyre(tyre) THEN SlickAdvice(e, m, wetness, under_sc)
       ELSE ForecastOverride(NonSlickAdvice(e, m, tyre, wet_score, under_sc),
                             e, tyre, lr, fc, wetness, under_sc)

\* The scores of one update (lines 159-301), from the engine after the
\* pushes and its medians.
RainScores(e1, m, in) ==
    LET s4 == S4(in.expected_pace, in.your_last_lap_s)
    IN [wetness |-> Wetness(m, in.state, s4),
        fullwet |-> FullWet(m, in.state.rain_fc_series),
        confidence |-> Confidence(e1, m, in.state, s4),
        fused_raw |-> FusedRaw(m, s4),
        no_signal |-> /\ IsNone(S0(m)) /\ IsNone(S1(m)) /\ IsNone(S2(m))
                      /\ IsNone(S3(m)) /\ IsNone(s4)]

\* RainEngine.update at wall time now.  in = [state, current_tyre,
\* laps_remaining, expected_pace, your_last_lap_s]; state carries the
\* F1LiveState fields the engine reads.  Returns the engine after the
\* update and the RainEngineOutput (with the intermediate scores).
RainUpdate(e, in, now) ==
    Bind(PushAll(e, in.state, now), LAMBDA e1 :
      Bind(Medians(e1), LAMBDA m :
        Bind(RainScores(e1, m, in), LAMBDA sc :
          Bind(Hysteresis(e1, sc.wetness, sc.fullwet), LAMBDA e2 :
            [e |-> e2,
             out |-> [advice |-> Advice(e2, m, TyreNorm(in.current_tyre),
                                        in.laps_remaining,
                                        in.state.rain_fc_series, sc.wetness,
                                        sc.fullwet, UnderSC(in.state)),
                      wetness |-> sc.wetness,
                      confidence |-> sc.confidence,
                      fullwet |-> sc.fullwet,
                      fused_raw |-> sc.fused_raw,
                      no_signal |-> sc.no_signal]]))))

(***************************************************************************)
(* The engine driven by a sequence of update() calls.                      *)
(***************************************************************************)

\* F1LiveState snapshots handed to update(): the fields the engine reads.
\* Shares are in 1/FP, deltas in 1/FP s, rain in percent; a forecast sample
\* is <<minutes ahead, rain percent, weather enum>>.
LiveState(weather, share, dis, rain, wshare, dwi, temp, sc, fc) ==
    [weather |-> weather, inter_share |-> share, delta_is |-> dis,
     rain_fc_pct |-> rain, wet_share |-> wshare, delta_wi |-> dwi,
     track_temp_c |-> temp, safety_car_status |-> sc, rain_fc_series |-> fc]

FcNone == <<>>
FcDry == << <<0, 10, 0>>, <<5, 10, 0>> >>
FcWet == << <<0, 70, 4>>, <<5, 70, 4>>, <<10, 60, 4>> >>
FcDrying == << <<0, 70, 4>>, <<5, 70, 4>>, <<8, 20, 2>> >>

\* A fresh F1LiveState(): nothing known yet.
LiveUnknown == LiveState(None, None, None, None, None, None, None, None, FcNone)
\* Dry running.
LiveDry == LiveState(Some(0), Some(0), None, Some(10), Some(0), None, Some(30), Some(0), FcDry)
\* Light rain, field still mostly on slicks.
LiveLight == LiveState(Some(3), Some(3000), Some(10000), Some(40), Some(0), None, None, Some(0), FcWet)
\* Heavy rain: weather 4, share 0.6, delta -1.2 s, forecast 70 %, no SC.
LiveHeavy == LiveState(Some(4), Some(6000), Some(0 - 12000), Some(70), None, None, None, Some(0), FcWet)
\* The same, the forecast dropping to 20 % in 8 minutes.
LiveHeavyDrying == LiveState(Some(4), Some(6000), Some(0 - 12000), Some(70), None, None, None, Some(0), FcDrying)
\* Storm under the safety car, cold track, the field on wets.
LiveStormSC == LiveState(Some(5), Some(10000), Some(0 - 30000), Some(90), Some(6000), Some(0 - 15000), Some(10), Some(1), FcWet)
\* No weather enum decoded yet; the field signals alone read wet.
LiveFieldWet == LiveState(None, Some(6000), Some(0 - 12000), Some(70), None, None, None, Some(0), FcWet)
\* No weather enum decoded; inters slower than slicks, wets faster than inters.
LiveFieldMixed == LiveState(None, Some(3000), Some(10000), Some(10), Some(3000), Some(0 - 15000), None, Some(0), FcWet)

\* Rain without a fleet pace delta: weather 4 (wetness at the 0.80 floor),
\* weather 3 under the virtual safety car, and weather 5.
LiveRainNoDelta == LiveState(Some(4), Some(3000), None, Some(40), None, None, None, Some(0), FcWet)
LiveRainNoDeltaSC == LiveState(Some(3), Some(3000), None, Some(40), None, None, None, Some(2), FcWet)
LiveStormNoDelta == LiveState(Some(5), Some(3000), None, Some(40), None, None, None, Some(0), FcWet)

LiveStates ==
    {LiveUnknown, LiveDry, LiveLight, LiveHeavy, LiveHeavyDrying, LiveStormSC,
     LiveFieldWet, LiveFieldMixed}

EngineInput(st, tyre, laps, pace, last) ==
    [state |-> st, current_tyre |-> tyre, laps_remaining |-> laps,
     expected_pace |-> pace, your_last_lap_s |-> last]

\* The calls of the hysteresis specification: on slicks, 20 laps to go, no
\* baseline pace.
HystInputs == {EngineInput(st, "C4", 20, None, None) : st \in LiveStates}

\* Seconds between two update() calls: beyond window_s (the previous samples
\* have left the window) and inside it (they are still part of the medians).
GapLong == 25
GapShort == 15

\* The calls explored: every input after a long gap, the dry and the
\* heavy-rain inputs also after a short one.
HystCalls ==
    {<<in, GapLong>> : in \in HystInputs}
    \cup {<<EngineInput(st, "C4", 20, None, None), GapShort>> :
              st \in {LiveDry, LiveHeavy, LiveHeavyDrying}}

\* The calls of the advice specification: tyre name and laps remaining
\* varied (slick, Intermediate, Wet and no name; the race ending, 2 laps and
\* 20 laps to go, a negative count), over dry, wet, drying and unknown
\* conditions.
AdviceTyreLaps ==
    {<<"c4", 20>>, <<" inter", 20>>, <<"Wet", 20>>, <<" inter", 2>>,
     <<"Wet", 2>>, <<"c4", 1>>, <<"Wet", 0 - 2>>, <<"", 3>>}

AdviceCalls ==
    {<<EngineInput(st, tl[1], tl[2], None, None), GapLong>> :
         st \in {LiveUnknown, LiveDry, LiveHeavyDrying, LiveStormSC},
         tl \in AdviceTyreLaps}
    \cup {<<EngineInput(LiveDry, tl[1], tl[2], None, None), GapShort>> :
              tl \in AdviceTyreLaps}

(***************************************************************************)
(* The baseline-pace cache of RainEngine (_expected_pace_from_rows).       *)
(***************************************************************************)

\* A cached median is served for less than 10 s (line 455); lap times of
\* rows outside (10 s, 400 s) are ignored (line 471).
PaceTtl == 10
RowLapMin == 10
RowLapMax == 400

\* str.strip() of the track names used.
TrackNorm(track) ==
    CASE track = " Monza " -> "Monza"
      [] OTHER -> track

\* The tracks and compounds of the calls, and the cache keys they give
\* (line 452).
PaceTracks == {"Monza", " Monza ", "Spa"}
PaceTyres == {"c4", " inter"}
PaceKey(track, tyre) == <<TrackNorm(track), TyreNorm(tyre)>>
PaceKeys == {PaceKey(tr, ty) : tr \in PaceTracks, ty \in PaceTyres}

\* The lap times of the rows on compound t (lines 459-472): rows whose lap
\* time does not parse (None) or lies outside (10, 400) are skipped.  A row
\* is [tyre, lap], the lap time in whole seconds.
RowTimes(t, rows) ==
    LET ok(r) == /\ IsSome(r.lap)
                 /\ TyreNorm(r.tyre) = t
                 /\ ~(Val(r.lap) <= RowLapMin \/ Val(r.lap) >= RowLapMax)
        kept == SelectSeq(rows, ok)
    IN [k \in 1..Len(kept) |-> Val(kept[k].lap)]

\* _median (lines 21-28), doubled: None for no values.
PaceMedian(times) == IF times = <<>> THEN None ELSE Some(Median2(times))

\* A cache hit that is served for 10 s and longer.
PaceFreshMutForever(entry) == IsSome(entry)

\* Whether a cache entry is served (line 455).
PaceFresh(entry) == IsSome(entry) /\ Val(entry).age < PaceTtl

\* RainEngine._expected_pace_from_rows (lines 447-478) on the cache `cache`:
\* the cache after the call and the returned median.
ExpectedPaceFromRows(cache, track, tyre, rows) ==
    LET key == PaceKey(track, tyre)
        cached == cache[key]
        med == PaceMedian(RowTimes(TyreNorm(tyre), rows))
    IN IF PaceFresh(cached)
       THEN [cache |-> cache, ret |-> Some(Val(cached).med)]
       ELSE [cache |-> IF IsSome(med)
                       THEN [cache EXCEPT ![key] = Some([age |-> 0, med |-> Val(med)])]
                       ELSE cache,
             ret |-> med]

\* The rows handed to the calls: laps on two compounds, a set with a broken
\* and an unparseable lap time, and no rows.
PaceRows ==
    {<< [tyre |-> "C4", lap |-> Some(90)], [tyre |-> "c4", lap |-> Some(94)],
        [tyre |-> " inter", lap |-> Some(101)] >>,
     << [tyre |-> "C4", lap |-> Some(88)], [tyre |-> "C4", lap |-> Some(5)],
        [tyre |-> "C4", lap |-> None], [tyre |-> "INTER", lap |-> Some(400)] >>,
     << >>}

\* Seconds that pass between two calls in one step.
PaceStep == 5

\* Bound on the hysteresis counters: an update that would push a counter
\* past it is not explored (beyond the hold counts nothing new happens).
MaxCount == 4

VARIABLES
    re,         \* the RainEngine; sample times relative to the last update
    re_in,      \* the arguments of the last update (None before the first)
    re_out,     \* what the last update returned
    re_hist,    \* regimes and flags of the last two updates, newest first
    re_flips,   \* flag flips inside the current same-regime streak
    re_runs,    \* length of the current same-regime streak, per score
    re_scen,    \* every update so far had the heavy-rain arguments: how many
    baseline_cache, \* _baseline_cache: per key, the age and the cached median
    pace_call   \* the last _expected_pace_from_rows call (None before it)

rainVars == <<re, re_in, re_out, re_hist, re_flips, re_runs, re_scen,
             baseline_cache, pace_call>>

InitRain ==
    /\ re = RainNew
    /\ re_in = None
    /\ re_out = None
    /\ re_hist = <<>>
    /\ re_flips = [wet |-> 0, fw_gated |-> 0]
    /\ re_runs = [wet |-> 0, fw |-> 0]
    /\ re_scen = [ok |-> TRUE, n |-> 0]
    /\ baseline_cache = [k \in PaceKeys |-> None]
    /\ pace_call = None

\* The engine only ever compares sample times with the current time.time():
\* times are kept relative to the last update, and a sample already older
\* than the window is kept at window_s + 1 seconds of age.
Age(dq, gap) ==
    [i \in 1..Len(dq) |-> <<Max2(dq[i][1] - gap, 0 - (window_s + 1)), dq[i][2]>>]

AgeAll(e, gap) ==
    [e EXCEPT !.inter_share = Age(@, gap), !.delta_is = Age(@, gap),
              !.rain_next = Age(@, gap), !.track_temp = Age(@, gap),
              !.weather = Age(@, gap), !.wet_share = Age(@, gap),
              !.delta_wi = Age(@, gap)]

\* What one update did to the two machines.
HistEntry(before, after, out) ==
    [wet_regime |-> Regime(out.wetness, on_th, off_th),
     wet_before |-> before.is_wet_mode, wet_after |-> after.is_wet_mode,
     fw_regime |-> Regime(out.fullwet, wet_on_th, wet_off_th),
     fw_before |-> before.is_fullwet_mode, fw_after |-> after.is_fullwet_mode]

\* Flips inside the current streak of updates with an unchanged regime
\* (fw_gated: unchanged full-wet regime and wet-mode active after each),
\* counted up to 2.
Flips(h, hist, flips) ==
    LET same_wet == hist # <<>> /\ hist[1].wet_regime = h.wet_regime
        same_fw == hist # <<>> /\ hist[1].fw_regime = h.fw_regime
        wet_flip == IF h.wet_before # h.wet_after THEN 1 ELSE 0
        fw_flip == IF h.fw_before # h.fw_after THEN 1 ELSE 0
    IN [wet |-> Min2(2, (IF same_wet THEN flips.wet ELSE 0) + wet_flip),
        fw_gated |-> IF ~h.wet_after THEN 0
                     ELSE Min2(2, (IF same_fw /\ hist[1].wet_after
                                   THEN flips.fw_gated ELSE 0) + fw_flip)]

\* How many updates in a row, the one of h included, had h's regime of the
\* wetness score and of the full-wet score, counted up to the longer hold
\* count.
Runs(h, hist, runs) ==
    [wet |-> IF hist # <<>> /\ hist[1].wet_regime = h.wet_regime
             THEN Min2(hold_off_updates, runs.wet + 1) ELSE 1,
     fw |-> IF hist # <<>> /\ hist[1].fw_regime = h.fw_regime
            THEN Min2(wet_hold_off_updates, runs.fw + 1) ELSE 1]

\* The arguments of the heavy-rain scenario: on slicks, 20 laps to go.
IsHeavyScenario(in) ==
    /\ in.state = LiveHeavy
    /\ in.current_tyre = "C4"
    /\ in.laps_remaining = 20

\* One update() call, drawn from Calls: its arguments and the seconds since
\* the previous call.
RainStep(Calls) ==
    \E c \in Calls :
        \E in \in {c[1]}, r \in {RainUpdate(AgeAll(re, c[2]), c[1], 0)} :
        \E h \in {HistEntry(re, r.e, r.out)} :
           /\ r.e.on_counter <= MaxCount /\ r.e.off_counter <= MaxCount
           /\ r.e.wet_on_counter <= MaxCount /\ r.e.wet_off_counter <= MaxCount
           /\ re' = r.e
           /\ re_in' = Some(in)
           /\ re_out' = Some(r.out)
           /\ re_hist' = SubSeq(<<h>> \o re_hist, 1, Min2(2, Len(re_hist) + 1))
           /\ re_flips' = Flips(h, re_hist, re_flips)
           /\ re_runs' = Runs(h, re_hist, re_runs)
           /\ re_scen' = IF re_scen.ok /\ IsHeavyScenario(in)
                         THEN [ok |-> TRUE, n |-> re_scen.n + 1]
                         ELSE [ok |-> FALSE, n |-> 0]
           /\ UNCHANGED <<baseline_cache, pace_call>>

HystStep == RainStep(HystCalls)

AdviceStep == RainStep(AdviceCalls)

\* The calls of the slick specification: on a slick compound with 2 or 20
\* laps to go; dry, rain with and without a pace delta, with and without
\* the safety car.
SlickCalls ==
    {<<EngineInput(st, tl[1], tl[2], None, None), GapLong>> :
         st \in {LiveDry, LiveHeavy, LiveRainNoDelta, LiveRainNoDeltaSC,
                 LiveStormNoDelta},
         tl \in {<<"c4", 20>>, <<"SLICK", 2>>}}

SlickStep == RainStep(SlickCalls)

(***************************************************************************)
(* F1UDPListener                                                           *)
(*                                                                         *)
(* The per-slot lists have NCars entries (22 in the source), slots are     *)
(* numbered from 0.  Lap times on the wire are milliseconds; the lap       *)
(* buffers hold last_ms / 1000.0, kept here in tenths of a second (every   *)
(* lap time fed in is a multiple of 100 ms).  time.time() and              *)
(* time.monotonic() advance together in ticks of 0.1 s; every stored time  *)
(* is kept relative to now (0 = now, negative = ticks ago) and saturates   *)
(* at the longest interval it is ever compared with.  Fields that are only *)
(* written or printed (_tyre_actual, _tyre_last_seen, _last_lap_scan_t)    *)
(* are not part of the state.                                              *)
(***************************************************************************)
NCars == 3
Slots == 0..(NCars - 1)

Cats == {"SLICK", "INTER", "WET"}

\* self._emit_interval_s, self._outlap_slow_ms, the plausibility window of
\* a lap time and the "extremely slow" limit, in ticks / ms
emit_interval == 5
outlap_slow_ms == 8000
LapMinMs == 40000
LapMaxMs == 360000
LapVerySlowMs == 200000
LapGarbageMs == 10000000

\* self._your_outlier_sec (2.5 s), _your_outlier_min_n, _your_lap_min_s,
\* _your_lap_max_s, in tenths of a second
your_outlier_ds == 25
your_outlier_min_n == 3
your_lap_min_ds == 200
your_lap_max_ds == 4000

\* deque(maxlen=5)
LapBufMaxLen == 5

Abs(x) == IF x < 0 THEN 0 - x ELSE x

\* A buffer that grows without evicting.
BufAppendMutNoEvict(buf, x) == Append(buf, x)

\* deque.append on a deque(maxlen=5): the oldest entry falls out.
BufAppend(buf, x) ==
    IF Len(buf) >= LapBufMaxLen THEN Append(Tail(buf), x) ELSE Append(buf, x)

\* An outlier gate with the fixed threshold only.
RobustAcceptMutFixed(buf, lap_ds) ==
    IF Len(buf) < your_outlier_min_n THEN TRUE
    ELSE Abs(2 * lap_ds - Median2(buf)) <= 2 * your_outlier_ds

\* F1UDPListener._robust_accept_lap.  med2 is twice the median, mad4 four
\* times the median absolute deviation; the threshold is
\* max(2.5 s, 3.5 * 1.4826 * MAD).
RobustAccept(buf, lap_ds) ==
    IF Len(buf) < your_outlier_min_n THEN TRUE
    ELSE LET med2 == Median2(buf)
             devs == [k \in 1..Len(buf) |-> Abs(2 * buf[k] - med2)]
             mad4 == Median2(devs)
             dev2 == Abs(2 * lap_ds - med2)
         IN \/ dev2 <= 2 * your_outlier_ds
            \/ dev2 * 100000 <= 259455 * mad4

\* The tyre category of a visual compound byte (lines 528-538).
CatOfVisual(visual) ==
    IF visual = 8 THEN "WET" ELSE IF visual = 7 THEN "INTER" ELSE "SLICK"

\* F1LiveState(): every field None.
LiveStateNew ==
    [safety_car_status |-> None, weather |-> None, rain_now_pct |-> None,
     rain_fc_pct |-> None, rain_fc_series |-> None, session_uid |-> None,
     player_car_index |-> None, player_tyre_cat |-> None,
     inter_share |-> None, inter_only_share |-> None, wet_share |-> None,
     pace_delta_inter_vs_slick_s |-> None, pace_delta_wet_vs_inter_s |-> None,
     pace_delta_wet_vs_slick_s |-> None,
     inter_count |-> None, inter_only_count |-> None, wet_count |-> None,
     slick_count |-> None,
     your_delta_inter_vs_slick_s |-> None, your_delta_wet_vs_slick_s |-> None,
     your_delta_wet_vs_inter_s |-> None, your_ref_counts |-> None]

EmptyLaps == [c \in Cats |-> <<>>]

\* _Debounce(n=6, max_age_s=0.7) with its initial _t0 = 0.0 long ago.
DebIdle ==
    [DebNew(DebListenerN, DebListenerMaxAge) EXCEPT !.t0 = 0 - DebListenerMaxAge]

\* F1UDPListener.__init__ (lines 108-175), without the thread handle, the
\* stop event and self.state.
ListenerNew ==
    [deb_sc |-> DebIdle,
     deb_weather |-> DebIdle,
     deb_rain_now |-> DebIdle,
     deb_rain_fc |-> DebIdle,
     last_lap_ms |-> [i \in Slots |-> None],
     last_lap_ms_by_car |-> [i \in Slots |-> None],
     tyre_cat |-> [i \in Slots |-> None],
     tyre_visual |-> [i \in Slots |-> None],
     last_emit_t |-> 0 - emit_interval,
     dirty |-> FALSE,
     pit_status |-> [i \in Slots |-> 0],
     pit_cycle |-> [i \in Slots |-> 0],
     pending_tyre |-> [i \in Slots |-> None],
     ignore_next_lap |-> [i \in Slots |-> FALSE],
     last_tyre_cat |-> [i \in Slots |-> None],
     lap_valid |-> [i \in Slots |-> TRUE],
     lap_flag |-> [i \in Slots |-> "OK"],
     player_idx |-> None,
     session_uid |-> None,
     last_session_uid |-> None,
     your_laps |-> EmptyLaps,
     car_laps |-> [i \in Slots |-> EmptyLaps]]

\* _read_header (lines 63-79) on the header bytes d of a datagram of d.len
\* bytes: None below 29 bytes, else the unpacked fields, whatever the packet
\* format and the game year say.
HeaderBytes == 29

ReadHeader(d) ==
    IF d.len < HeaderBytes THEN None
    ELSE Some([packetFormat |-> d.packetFormat, gameYear |-> d.gameYear,
               sessionUID |-> d.sessionUID, playerCarIndex |-> d.playerCarIndex])

\* A header bookkeeping that keeps the player's reference buffers.
HeaderSeenMutNoClear(sl, hdr) ==
    [l  |-> [sl.l EXCEPT !.player_idx = Some(hdr.playerCarIndex),
                         !.session_uid = Some(hdr.sessionUID),
                         !.last_session_uid = Some(hdr.sessionUID)],
     st |-> [sl.st EXCEPT !.session_uid = Some(hdr.sessionUID)]]

\* The header bookkeeping done for every packet with a readable header
\* (lines 209-219): player index, session uid, and the player's reference
\* buffers cleared when the session uid changes.  sl = [l, st].
HeaderSeen(sl, hdr) ==
    [l  |-> [sl.l EXCEPT !.player_idx = Some(hdr.playerCarIndex),
                         !.session_uid = Some(hdr.sessionUID),
                         !.last_session_uid = Some(hdr.sessionUID),
                         !.your_laps = IF Some(hdr.sessionUID) # sl.l.last_session_uid
                                       THEN EmptyLaps ELSE @],
     st |-> [sl.st EXCEPT !.session_uid = Some(hdr.sessionUID)]]

\* looks_like_outlap (lines 413-421): the lap is at least outlap_slow_ms
\* slower than the slot's previous lap time, or extremely slow.
LooksLikeOutlap(prev_ms, last_ms) ==
    \/ IsSome(prev_ms) /\ Val(prev_ms) > 0
                       /\ (last_ms - Val(prev_ms)) >= outlap_slow_ms
    \/ last_ms >= LapVerySlowMs

\* A loop iteration that takes every reading as the slot's new lap.
LapSlotMutNoBand(l, i, last_ms) ==
    [l |-> [l EXCEPT !.last_lap_ms_by_car[i] = Some(last_ms),
                     !.last_lap_ms[i] = Some(last_ms),
                     !.ignore_next_lap[i] = FALSE],
     changed |-> l.last_lap_ms[i] # Some(last_ms)]

\* One iteration of the per-car loop of the lap packet (lines 369-464) for
\* slot i reporting last_ms.
LapSlot(l, i, last_ms) ==
    LET l0 == IF last_ms # 0 /\ last_ms < LapGarbageMs
              THEN [l EXCEPT !.last_lap_ms_by_car[i] = Some(last_ms)] ELSE l
    IN IF ~(LapMinMs <= last_ms /\ last_ms <= LapMaxMs) \/ l.last_lap_ms[i] = Some(last_ms)
       THEN [l |-> l0, changed |-> FALSE]
       ELSE
       LET prev_ms == l.last_lap_ms[i]
           in_lap == l.pit_status[i] # 0 /\ last_ms >= LapVerySlowMs
           out_lap == l.ignore_next_lap[i] /\ LooksLikeOutlap(prev_ms, last_ms)
           valid == IF l.ignore_next_lap[i] THEN ~out_lap ELSE ~in_lap
           lap_flag == IF l.ignore_next_lap[i]
                       THEN (IF out_lap THEN "OUT" ELSE "OK")
                       ELSE (IF in_lap THEN "IN" ELSE "OK")
           lap_ds == last_ms \div 100
           cat == l.tyre_cat[i]
           l1 == [l0 EXCEPT !.last_lap_ms[i] = Some(last_ms),
                            !.ignore_next_lap[i] = FALSE,
                            !.lap_valid[i] = valid,
                            !.lap_flag[i] = lap_flag]
           l2 == IF valid /\ IsSome(cat) /\ RobustAccept(l1.car_laps[i][Val(cat)], lap_ds)
                 THEN [l1 EXCEPT !.car_laps[i][Val(cat)] = BufAppend(@, lap_ds)]
                 ELSE l1
           ycat == IF IsSome(cat) THEN Val(cat) ELSE "SLICK"
           l3 == IF /\ Some(i) = l2.player_idx
                    /\ l2.lap_valid[i]
                    /\ your_lap_min_ds <= lap_ds /\ lap_ds <= your_lap_max_ds
                    /\ l2.lap_flag[i] = "OK" /\ l2.lap_valid[0]
                    /\ RobustAccept(l2.your_laps[ycat], lap_ds)
                 THEN [l2 EXCEPT !.your_laps[ycat] = BufAppend(@, lap_ds)]
                 ELSE l2
       IN [l |-> l3, changed |-> TRUE]

\* The per-car loop from slot i on; changed accumulates.
RECURSIVE LapLoop(_, _, _, _)
LapLoop(l, i, last_ms, changed) ==
    IF i >= NCars THEN [l |-> l, changed |-> changed]
    ELSE LET r == LapSlot(l, i, last_ms[i])
         IN LapLoop(r.l, i + 1, last_ms, changed \/ r.changed)

\* The lap packet handler, pid 2 (lines 348-492).  The packet's pit-status
\* bytes are not read.
LapPacket(sl, pkt) ==
    LET r == LapLoop(sl.l, 0, pkt.last_ms, FALSE)
    IN [l |-> [r.l EXCEPT !.dirty = @ \/ r.changed], st |-> sl.st]

\* The car-status packet handler, pid 7 (lines 494-580).
StatusPacket(sl, pkt) ==
    LET l == sl.l
        cat(i) == CatOfVisual(pkt.visual[i])
        in_pit(i) == l.pit_status[i] \in {1, 2}
        swap(i) == ~in_pit(i) /\ l.tyre_cat[i] # Some(cat(i))
        armed(i) == swap(i) /\ IsSome(l.tyre_cat[i])
    IN [l |-> [l EXCEPT
                 !.tyre_visual = [i \in Slots |-> Some(pkt.visual[i])],
                 !.pending_tyre = [i \in Slots |-> IF in_pit(i) THEN Some(cat(i))
                                                  ELSE l.pending_tyre[i]],
                 !.tyre_cat = [i \in Slots |-> IF swap(i) THEN Some(cat(i))
                                              ELSE l.tyre_cat[i]],
                 !.last_lap_ms = [i \in Slots |-> IF swap(i) THEN None
                                                 ELSE l.last_lap_ms[i]],
                 !.lap_valid = [i \in Slots |-> IF swap(i) THEN FALSE
                                               ELSE l.lap_valid[i]],
                 !.lap_flag = [i \in Slots |-> IF swap(i) THEN "TYRE_SWAP"
                                              ELSE l.lap_flag[i]],
                 !.pit_cycle = [i \in Slots |-> IF armed(i) THEN 2
                                               ELSE l.pit_cycle[i]],
                 !.ignore_next_lap = [i \in Slots |-> IF armed(i) THEN TRUE
                                                     ELSE l.ignore_next_lap[i]],
                 !.last_tyre_cat = [i \in Slots |-> IF swap(i) THEN Some(cat(i))
                                                   ELSE l.last_tyre_cat[i]],
                 !.dirty = @ \/ (\E i \in Slots : swap(i))],
        st |-> sl.st]

\* The guard on a decoded forecast sample <<minutes, rain, weather>>
\* (line 278).
FcSampleOk(x) ==
    /\ 0 <= x[1] /\ x[1] <= 240
    /\ 0 <= x[3] /\ x[3] <= 5
    /\ 0 <= x[2] /\ x[2] <= 100

\* list.sort(key=time offset): stable insertion of x into a sorted list.
RECURSIVE FcInsert(_, _)
FcInsert(sorted, x) ==
    IF sorted = <<>> THEN <<x>>
    ELSE IF sorted[1][1] <= x[1] THEN <<sorted[1]>> \o FcInsert(Tail(sorted), x)
    ELSE <<x>> \o sorted

RECURSIVE FcSort(_)
FcSort(fc) ==
    IF fc = <<>> THEN <<>>
    ELSE FcInsert(FcSort(SubSeq(fc, 1, Len(fc) - 1)), fc[Len(fc)])

\* A series that keeps its duplicate offsets.
FcDedupeMutKeep(fc, seen) == fc

\* The dedupe by time offset: the first sample of each offset is kept.
RECURSIVE FcDedupe(_, _)
FcDedupe(fc, seen) ==
    IF fc = <<>> THEN <<>>
    ELSE IF fc[1][1] \in seen THEN FcDedupe(Tail(fc), seen)
    ELSE <<fc[1]>> \o FcDedupe(Tail(fc), seen \cup {fc[1][1]})

\* The forecast series of a session packet (lines 269-291).
FcSeries(raw) ==
    FcDedupe(FcSort(SelectSeq(raw, FcSampleOk)), {})

\* rain_now_raw: the sample at offset 0 (lines 296-298).
RainNowRaw(fc) ==
    LET now_samples == SelectSeq(fc, LAMBDA x : x[1] = 0)
    IN IF now_samples # <<>> THEN Some(now_samples[1][2]) ELSE None

\* rain_fc_raw: the nearest future sample, else the first (lines 300-306).
RainFcRaw(fc) ==
    LET future == SelectSeq(fc, LAMBDA x : x[1] > 0)
    IN IF fc = <<>> THEN None
       ELSE IF future # <<>> THEN Some(future[1][2]) ELSE Some(fc[1][2])

\* One debounced field: update the debouncer with raw when it is present
\* and in range, and store an accepted value that differs (lines 311-343).
\* Returns the debouncer, the field and whether it changed.
DebField(d, field, raw, lo, hi) ==
    IF IsNone(raw) \/ ~(lo <= Val(raw) /\ Val(raw) <= hi)
    THEN [d |-> d, field |-> field, changed |-> FALSE]
    ELSE LET r == DebUpdate(d, Val(raw), 0)
         IN IF IsSome(r.ret) /\ r.ret # field
            THEN [d |-> r.d, field |-> r.ret, changed |-> TRUE]
            ELSE [d |-> r.d, field |-> field, changed |-> FALSE]

\* The session packet handler, pid 1 (lines 232-346), for a packet long
\* enough to be decoded.  pkt.fc holds the forecast samples as decoded
\* from the wire, <<>> when the packet announces none.
SessionPacket(sl, pkt) ==
    LET l == sl.l
        st == sl.st
        fc == FcSeries(pkt.fc)
        rn == DebField(l.deb_rain_now, st.rain_now_pct, RainNowRaw(fc), 0, 100)
        rf == DebField(l.deb_rain_fc, st.rain_fc_pct, RainFcRaw(fc), 0, 100)
        we == DebField(l.deb_weather, st.weather, Some(pkt.weather_raw), 0, 5)
        sc == DebField(l.deb_sc, st.safety_car_status, Some(pkt.sc_raw), 0, 3)
    IN [l  |-> [l EXCEPT !.deb_rain_now = rn.d, !.deb_rain_fc = rf.d,
                         !.deb_weather = we.d, !.deb_sc = sc.d,
                         !.dirty = @ \/ rn.changed \/ rf.changed
                                     \/ we.changed \/ sc.changed],
        st |-> [st EXCEPT !.rain_fc_series = IF fc # <<>> THEN Some(fc) ELSE None,
                          !.rain_now_pct = rn.field,
                          !.rain_fc_pct = rf.field,
                          !.weather = we.field,
                          !.safety_car_status = sc.field]]

\* The number of slots whose current category is cat (lines 597-604).
CatCount(l, cat) == Cardinality({i \in Slots : l.tyre_cat[i] = Some(cat)})

\* A share count / total as a fixed-point number, 0.0 for an empty field
\* (lines 610-612).
Share(count, total) == IF total > 0 THEN (count * FP) \div total ELSE 0

\* The delta one car contributes (lines 639-647, 667-681): median(a) -
\* median(b) in 1/20 s, of a car with two or more laps on either side and
\* a delta inside +-10 s; None otherwise.
PerCarDelta(a, b) ==
    IF Len(a) >= 2 /\ Len(b) >= 2
       /\ 0 - 200 < Median2(a) - Median2(b)
       /\ Median2(a) - Median2(b) < 200
    THEN Some(Median2(a) - Median2(b)) ELSE None

\* A fleet delta published from two per-car deltas on.
FleetDeltaMutTwoCars(deltas) ==
    IF Len(deltas) >= 2 THEN Some(Median2(deltas)) ELSE None

\* The published fleet delta (lines 653-656, 683-684): the median of the
\* per-car deltas in 1/40 s, None with fewer than three of them.
FleetDelta(deltas) ==
    IF Len(deltas) >= 3 THEN Some(Median2(deltas)) ELSE None

\* The median over the cars of median(hi laps) - median(lo laps), for the
\* cars with two or more laps on either side and a delta inside +-10 s;
\* None with fewer than three such cars (lines 631-684).
FieldDelta(l, Hi(_), Lo(_)) ==
    LET per == [k \in 1..NCars |->
                   PerCarDelta(Hi(l.car_laps[k - 1]), Lo(l.car_laps[k - 1]))]
        some == SelectSeq(per, IsSome)
        deltas == [k \in 1..Len(some) |-> Val(some[k])]
    IN FleetDelta(deltas)

\* median(a) - median(b) of the player's own laps, in 1/20 s, None with
\* fewer than two laps on either side (lines 688-701).
YourDelta(a, b) ==
    IF Len(a) >= 2 /\ Len(b) >= 2 THEN Some(Median2(a) - Median2(b)) ELSE None

\* A player slot that is always slot 0.
PlayerSlotMutSlot0(l) == 0

\* The player's slot as published (lines 620-627): the player index of the
\* last header, 0 when there is none or when it lies outside the slots.
PlayerSlot(l) ==
    LET p == IF IsSome(l.player_idx) THEN Val(l.player_idx) ELSE 0
    IN IF p \in Slots THEN p ELSE 0

\* F1UDPListener._update_field_metrics_and_emit up to the callback (lines
\* 586-701): the aggregate fields written into self.state.
FieldMetrics(l, st) ==
    LET inter == CatCount(l, "INTER")
        wet == CatCount(l, "WET")
        slick == CatCount(l, "SLICK")
        total == inter + wet + slick
        pidx == PlayerSlot(l)
        ys == l.your_laps["SLICK"]
        yi == l.your_laps["INTER"]
        yw == l.your_laps["WET"]
    IN [st EXCEPT
          !.inter_share = Some(Share(inter + wet, total)),
          !.inter_only_share = Some(Share(inter, total)),
          !.wet_share = Some(Share(wet, total)),
          !.inter_count = Some(inter + wet),
          !.inter_only_count = Some(inter),
          !.wet_count = Some(wet),
          !.slick_count = Some(slick),
          !.player_car_index = Some(pidx),
          !.player_tyre_cat = l.tyre_cat[pidx],
          !.pace_delta_inter_vs_slick_s =
              FieldDelta(l, LAMBDA c : c["INTER"] \o c["WET"], LAMBDA c : c["SLICK"]),
          !.pace_delta_wet_vs_inter_s =
              FieldDelta(l, LAMBDA c : c["WET"], LAMBDA c : c["INTER"]),
          !.pace_delta_wet_vs_slick_s =
              FieldDelta(l, LAMBDA c : c["WET"], LAMBDA c : c["SLICK"]),
          !.your_ref_counts = Some(<<Len(ys), Len(yi), Len(yw)>>),
          !.your_delta_inter_vs_slick_s = YourDelta(yi, ys),
          !.your_delta_wet_vs_slick_s = YourDelta(yw, ys),
          !.your_delta_wet_vs_inter_s = YourDelta(yw, yi)]

\* The gate of _maybe_emit (lines 720-725): dirty, and emit_interval or
\* more since the last emission.
EmitDueMutNoInterval(l) == l.dirty

EmitDue(l) == l.dirty /\ (0 - l.last_emit_t) >= emit_interval

\* F1UDPListener._maybe_emit (lines 719-729): when due, the emission time
\* and the dirty flag are updated, the metrics written, and self.state is
\* handed to on_state.
MaybeEmit(sl) ==
    IF EmitDue(sl.l)
    THEN [l |-> [sl.l EXCEPT !.last_emit_t = 0, !.dirty = FALSE],
          st |-> FieldMetrics(sl.l, sl.st),
          emitted |-> TRUE]
    ELSE [l |-> sl.l, st |-> sl.st, emitted |-> FALSE]

(***************************************************************************)
(* The listener driven by start()/stop(), its worker threads, the clock    *)
(* and the packets on the socket.                                          *)
(***************************************************************************)

\* What the subscriber holds after on_state(self.state): the listener's
\* state object itself.
StateRef == "self.state"

\* Bounds: lap-time events handled, the count a debouncer may reach, worker
\* threads ever started.
MaxLapEvents == 3
MaxDebCount == 7
MaxThreads == 2

\* Packet contents explored.
Headers == {[sessionUID |-> 1, playerCarIndex |-> 1]}
TyreLapTimes == {90000, 98000, 250000}
TyrePits == {0, 2}
TyreSlots == {1}
TyreVisuals == {16, 7, 8}
GateVisuals == {16, 7}
GateLapTimes == {90000}
GateSlots == {1}
UidHeaders == [u \in {1, 2} |-> [sessionUID |-> u, playerCarIndex |-> 0]]
UidLapTimes == [u \in {1, 2} |-> IF u = 1 THEN {90000, 91000} ELSE {92000, 93000}]
UidSlots == {0}
UidVisuals == {7}
Sessions ==
    {[weather_raw |-> 0, sc_raw |-> 0, fc |-> <<>>],
     [weather_raw |-> 4, sc_raw |-> 1, fc |-> << <<5, 60, 4>>, <<0, 70, 4>> >>]}

\* Full-length datagrams of the format the listener is written for (F1 25:
\* packetFormat 2025) and of an earlier game's format, whose bytes at the
\* same offsets read as another player slot.
FormatDatagram(fmt, player) ==
    [len |-> 1352, packetFormat |-> fmt, gameYear |-> fmt - 2000,
     sessionUID |-> 1, playerCarIndex |-> player]

NativeHeaders == {Val(ReadHeader(FormatDatagram(2025, 1)))}
ForeignHeaders == {Val(ReadHeader(FormatDatagram(2023, 0)))}
FormatSlots == {1}
FormatVisuals == {16, 7}
FormatLapTimes == {90000}

\* Lap times below, inside and above the plausible band for slot 0 and for
\* slot 1, the player's, which also changes tyres.
BandLapTimes == {30000, 90000, 400000}
BandSlots == {0, 1}
BandTyreSlots == {1}
BandVisuals == {16, 7}

\* Session packets with forecast samples as on the wire (each field one
\* byte): none; two samples out of order; a duplicate offset, an offset
\* beyond 240 and a rain value beyond 100 among good samples; nothing but
\* samples out of range.
FcSessions ==
    {[weather_raw |-> 0, sc_raw |-> 0, fc |-> <<>>],
     [weather_raw |-> 0, sc_raw |-> 0, fc |-> << <<5, 60, 4>>, <<0, 70, 4>> >>],
     [weather_raw |-> 0, sc_raw |-> 0,
      fc |-> << <<10, 30, 2>>, <<250, 50, 2>>, <<10, 40, 2>>, <<3, 120, 1>>,
                <<2, 20, 1>> >>],
     [weather_raw |-> 0, sc_raw |-> 0, fc |-> << <<250, 50, 2>>, <<7, 50, 9>> >>]}

VARIABLES
    lis,           \* the listener's private fields
    state,         \* self.state, the F1LiveState object
    stop_event,    \* self._stop
    thread,        \* self._thread: None or the number of the last thread
    workers,       \* per thread started, where it is: "starting", "loop",
                   \* "recv"; or how it ended: "exited" (stop seen, socket
                   \* closed), "sock_error" (OSError in recvfrom, socket
                   \* closed), "bind_failed" and "crashed" (an exception left
                   \* _run; sock.close() of line 584 was not reached)
    live_state,    \* the subscriber's _live_state: None or StateRef
    wire_pit,      \* pit-status byte per slot of the last lap packet
    gate,          \* the gate of the last emission: None before the first
    since_emit,    \* ticks since the last emission (None before the first)
    changes,       \* a packet has changed the state since the last emission
    n_laps,        \* lap-time events handled so far
    swap,          \* per slot: an on-track tyre change awaiting its first lap
    wire_sess      \* per session signal: the last reading on the wire, and
                   \* the last reading inside the signal's range

lisVars == <<lis, state, stop_event, thread, workers, live_state, wire_pit, gate,
             since_emit, changes, n_laps, swap, wire_sess>>

NoSwap == [armed |-> FALSE, prev_ms |-> None]

\* The debounced session signals, by the name of the published field, with
\* the range a reading must lie in to reach the debouncer (lines 318, 325,
\* 332, 339).
Signals == {"weather", "safety_car_status", "rain_now_pct", "rain_fc_pct"}

SignalOk(s, v) ==
    CASE s = "weather" -> 0 <= v /\ v <= 5
      [] s = "safety_car_status" -> 0 <= v /\ v <= 3
      [] OTHER -> 0 <= v /\ v <= 100

NoReadings == [raw |-> [s \in Signals |-> None], ok |-> [s \in Signals |-> None]]

InitLis ==
    /\ lis = ListenerNew
    /\ state = LiveStateNew
    /\ stop_event = FALSE
    /\ thread = None
    /\ workers = <<>>
    /\ live_state = None
    /\ wire_pit = [i \in Slots |-> 0]
    /\ gate = None
    /\ since_emit = None
    /\ changes = FALSE
    /\ n_laps = 0
    /\ swap = [i \in Slots |-> NoSwap]
    /\ wire_sess = NoReadings

\* start() (lines 177-180): the stop event is cleared and a new thread is
\* created and started, whatever the state of an earlier one.
Start ==
    /\ Len(workers) < MaxThreads
    /\ stop_event' = FALSE
    /\ workers' = Append(workers, "starting")
    /\ thread' = Some(Len(workers) + 1)
    /\ UNCHANGED <<lis, state, live_state, wire_pit, gate, since_emit, changes,
                   n_laps, swap, wire_sess,
                   debVars, rainVars>>

\* The one start() of a listener the application makes (main.py, line 308).
StartOnce == thread = None /\ Start

\* The workers that have not ended.
Running == {w \in DOMAIN workers : workers[w] \in {"starting", "loop", "recv"}}

\* start() again after stop() and the end of the earlier worker: the socket
\* is reopened, the listener object and its fields stay.
Restart == IsSome(thread) /\ stop_event /\ Running = {} /\ Start

\* stop() (lines 182-185): the stop event is set; the join that follows
\* waits at most 1 s and changes nothing.
Stop ==
    /\ IsSome(thread)
    /\ ~stop_event
    /\ stop_event' = TRUE
    /\ UNCHANGED <<lis, state, thread, workers, live_state, wire_pit, gate,
                   since_emit, changes, n_laps, swap, wire_sess,
                   debVars, rainVars>>

\* _run up to the loop (lines 188-191): the socket is created and bound
\* inside the thread.  bind succeeds, or it raises OSError (the port is held
\* by another program, or by an earlier worker on a platform where
\* SO_REUSEADDR does not share it); nothing in _run catches that.
WorkerBind(w) ==
    /\ workers[w] = "starting"
    /\ \/ workers' = [workers EXCEPT ![w] = "loop"]
       \/ workers' = [workers EXCEPT ![w] = "bind_failed"]
    /\ UNCHANGED <<lis, state, stop_event, thread, live_state, wire_pit, gate,
                   since_emit, changes, n_laps, swap, wire_sess,
                   debVars, rainVars>>

\* A loop test that does not look at the stop event.
WorkerCheckMutIgnoresStop(w) ==
    /\ workers[w] = "loop"
    /\ workers' = [workers EXCEPT ![w] = "recv"]
    /\ UNCHANGED <<lis, state, stop_event, thread, live_state, wire_pit, gate,
                   since_emit, changes, n_laps, swap, wire_sess,
                   debVars, rainVars>>

\* The loop test (line 193): leave when the stop event is set (and close the
\* socket, line 584), else block in recvfrom.
WorkerCheck(w) ==
    /\ workers[w] = "loop"
    /\ workers' = [workers EXCEPT ![w] = IF stop_event THEN "exited" ELSE "recv"]
    /\ UNCHANGED <<lis, state, stop_event, thread, live_state, wire_pit, gate,
                   since_emit, changes, n_laps, swap, wire_sess,
                   debVars, rainVars>>

\* The clocks advance by n ticks: every stored time moves into the past.
AgeDeb(d, n) == [d EXCEPT !.t0 = Max2(@ - n, 0 - d.max_age)]

AgeListener(l, n) ==
    [l EXCEPT !.last_emit_t = Max2(@ - n, 0 - emit_interval),
              !.deb_sc = AgeDeb(@, n), !.deb_weather = AgeDeb(@, n),
              !.deb_rain_now = AgeDeb(@, n), !.deb_rain_fc = AgeDeb(@, n)]

Elapse(n) ==
    /\ \E w \in DOMAIN workers : workers[w] = "recv"
    /\ lis' = AgeListener(lis, n)
    /\ since_emit' = IF IsSome(since_emit)
                     THEN Some(Min2(emit_interval, Val(since_emit) + n)) ELSE None
    /\ UNCHANGED <<state, stop_event, thread, workers, live_state, wire_pit, gate,
                   changes, n_laps, swap, wire_sess,
                   debVars, rainVars>>

\* 0.1 s passes; 1 s passes.
Tick == Elapse(1)
Wait == Elapse(10)

\* Whether a handler marks the state changed (its local `changed`).
SetsDirty(Body(_), sl) == Body([sl EXCEPT !.l.dirty = FALSE]).l.dirty

\* What a subscriber can come to see: the live state and the slots' tyres
\* and laps the field metrics are computed from.
Tracked(sl) ==
    <<sl.st, sl.l.tyre_cat, sl.l.last_lap_ms, sl.l.lap_valid, sl.l.lap_flag,
      sl.l.your_laps, sl.l.car_laps>>

\* An on-track tyre change of slot i from a known category: remembered with
\* the slot's last valid lap time until the slot's next lap-time event.
SwapAfterStatus(i, l, wpit, l2) ==
    IF wpit[i] = 0 /\ IsSome(l.tyre_cat[i]) /\ l2.tyre_cat[i] # l.tyre_cat[i]
    THEN [armed |-> TRUE,
          prev_ms |-> IF l.lap_valid[i] THEN l.last_lap_ms[i] ELSE None]
    ELSE swap[i]

SwapAfterLap(i, l, l2) ==
    IF swap[i].armed /\ l2.last_lap_ms[i] # l.last_lap_ms[i] THEN NoSwap
    ELSE swap[i]

\* The rest of a loop iteration after the handler of a packet: _maybe_emit
\* with the callback, and back to the loop test.  sl2 is the listener and
\* state after the handler, sl1 before it.  cb is what the subscriber's
\* callback does when it is called: it "returns" having stored the reference
\* (main.py, lines 320-322), or it "raises" before that, which lines 710-714
\* catch and ignore.
HandledSess(w, sl1, sl2, pit, sw, laps, cb, ws) ==
    \E r \in {MaybeEmit(sl2)}, ch \in {Tracked(sl2) # Tracked(sl1)} :
        /\ workers' = [workers EXCEPT ![w] = "loop"]
        /\ lis' = r.l
        /\ state' = r.st
        /\ live_state' = IF r.emitted /\ cb = "returns" THEN StateRef
                         ELSE live_state
        /\ gate' = IF r.emitted
                    THEN Some([dirty |-> sl2.l.dirty, elapsed |-> since_emit,
                               changes |-> (changes \/ ch),
                               dirty_after |-> r.l.dirty,
                               stamp |-> r.l.last_emit_t])
                    ELSE gate
        /\ since_emit' = IF r.emitted THEN Some(0) ELSE since_emit
        /\ changes' = (~r.emitted /\ (changes \/ ch))
        /\ wire_pit' = pit
        /\ swap' = sw
        /\ n_laps' = laps
        /\ wire_sess' = ws
        /\ UNCHANGED <<stop_event, thread,
                   debVars, rainVars>>

\* A loop iteration for a packet other than a session packet.
HandledCb(w, sl1, sl2, pit, sw, laps, cb) ==
    HandledSess(w, sl1, sl2, pit, sw, laps, cb, wire_sess)

\* A loop iteration that ends with a callback that returns.
Handled(w, sl1, sl2, pit, sw, laps) ==
    HandledCb(w, sl1, sl2, pit, sw, laps, "returns")

\* The lap times on the wire: what the last lap packet carried.
WireLaps ==
    [i \in Slots |-> IF IsSome(lis.last_lap_ms_by_car[i])
                     THEN Val(lis.last_lap_ms_by_car[i]) ELSE 0]

\* The lap packets that can follow: the same content, or one slot with a
\* new last lap time, or one slot with a new pit status.
LapPackets(cars, times, pits) ==
    {[last_ms |-> WireLaps, pit |-> wire_pit]}
    \cup {[last_ms |-> [WireLaps EXCEPT ![i] = v], pit |-> wire_pit] :
             i \in cars, v \in times}
    \cup {[last_ms |-> WireLaps, pit |-> [wire_pit EXCEPT ![i] = p]] :
             i \in cars, p \in pits}

\* A lap packet (pid 2) of pkts with a header of hdrs is received and
\* handled.
RecvLapPkts(w, hdrs, pkts) ==
    /\ workers[w] = "recv"
    /\ \E hdr \in hdrs, pkt \in pkts :
       \E sl1 \in {HeaderSeen([l |-> lis, st |-> state], hdr)} :
       \E sl2 \in {LapPacket(sl1, pkt)} :
       \E ch \in {SetsDirty(LAMBDA x : LapPacket(x, pkt), sl1)} :
          /\ ch => n_laps < MaxLapEvents
          /\ Handled(w, sl1, sl2, pkt.pit,
                     [i \in Slots |-> SwapAfterLap(i, lis, sl2.l)],
                     IF ch THEN n_laps + 1 ELSE n_laps)

\* A lap packet of the one session of Headers.
RecvLap(w, cars, times, pits) ==
    RecvLapPkts(w, Headers, LapPackets(cars, times, pits))

\* The lap packets of session u: the game starts a session with every last
\* lap time at 0, so a packet of session u carries, per slot, the last lap
\* time the wire had if that was a lap of session u and 0 otherwise, or a
\* new lap time of session u for one car of UidSlots.
UidLapPackets(u) ==
    LET wire == [i \in Slots |-> IF WireLaps[i] \in UidLapTimes[u]
                                  THEN WireLaps[i] ELSE 0]
    IN {[last_ms |-> wire, pit |-> wire_pit]}
       \cup {[last_ms |-> [wire EXCEPT ![i] = v], pit |-> wire_pit] :
                i \in UidSlots, v \in UidLapTimes[u]}

\* The visual compounds on the wire: what the last status packet carried
\* (16, a slick, before the first).
WireVisuals ==
    [i \in Slots |-> IF IsSome(lis.tyre_visual[i]) THEN Val(lis.tyre_visual[i])
                     ELSE 16]

StatusPackets(cars, visuals) ==
    {[visual |-> WireVisuals]}
    \cup {[visual |-> [WireVisuals EXCEPT ![i] = v]] : i \in cars, v \in visuals}

\* A car-status packet (pid 7) with a header of hdrs is received and handled;
\* the callback of an emission behaves as one of cbs.
RecvStatusFrom(w, hdrs, cars, visuals, cbs) ==
    /\ workers[w] = "recv"
    /\ \E hdr \in hdrs, pkt \in StatusPackets(cars, visuals), cb \in cbs :
       \E sl1 \in {HeaderSeen([l |-> lis, st |-> state], hdr)} :
       \E sl2 \in {StatusPacket(sl1, pkt)} :
          HandledCb(w, sl1, sl2, wire_pit,
                    [i \in Slots |-> SwapAfterStatus(i, lis, wire_pit, sl2.l)],
                    n_laps, cb)

\* A car-status packet of the one session of Headers, with a callback that
\* returns.
RecvStatus(w, cars, visuals) ==
    RecvStatusFrom(w, Headers, cars, visuals, {"returns"})

\* The readings a session packet carries for the debounced signals: the
\* weather and safety-car bytes (lines 240-241), and the rain now and rain
\* forecast taken from the forecast series (lines 293-306), None when the
\* series has no sample for them.
Readings(pkt) ==
    [s \in Signals |->
        CASE s = "weather" -> Some(pkt.weather_raw)
          [] s = "safety_car_status" -> Some(pkt.sc_raw)
          [] s = "rain_now_pct" -> RainNowRaw(FcSeries(pkt.fc))
          [] OTHER -> RainFcRaw(FcSeries(pkt.fc))]

\* The last readings after the session packet pkt.
SessAfter(pkt) ==
    LET r == Readings(pkt)
    IN [raw |-> [s \in Signals |-> IF IsSome(r[s]) THEN r[s]
                                   ELSE wire_sess.raw[s]],
        ok  |-> [s \in Signals |-> IF IsSome(r[s]) /\ SignalOk(s, Val(r[s]))
                                   THEN r[s] ELSE wire_sess.ok[s]]]

\* A session packet (pid 1) is received and handled.
RecvSession(w, sessions) ==
    /\ workers[w] = "recv"
    /\ \E hdr \in Headers, pkt \in sessions :
       \E sl1 \in {HeaderSeen([l |-> lis, st |-> state], hdr)} :
       \E sl2 \in {SessionPacket(sl1, pkt)} :
          /\ sl2.l.deb_sc.count <= MaxDebCount
          /\ sl2.l.deb_weather.count <= MaxDebCount
          /\ sl2.l.deb_rain_now.count <= MaxDebCount
          /\ sl2.l.deb_rain_fc.count <= MaxDebCount
          /\ HandledSess(w, sl1, sl2, wire_pit, swap, n_laps, "returns",
                         SessAfter(pkt))

\* A packet of any other id: only the header is used, then _maybe_emit.
RecvOther(w) ==
    /\ workers[w] = "recv"
    /\ \E hdr \in Headers :
       \E sl1 \in {HeaderSeen([l |-> lis, st |-> state], hdr)} :
          Handled(w, sl1, sl1, wire_pit, swap, n_laps)

\* A datagram shorter than the 29-byte header (lines 205-207, with
\* _read_header, lines 63-65): dropped with `continue` before anything is
\* touched.  _maybe_emit is skipped.
RecvNoHeader(w) ==
    /\ workers[w] = "recv"
    /\ workers' = [workers EXCEPT ![w] = "loop"]
    /\ UNCHANGED <<lis, state, stop_event, thread, live_state, wire_pit, gate,
                   since_emit, changes, n_laps, swap, wire_sess,
                   debVars, rainVars>>

\* A datagram with a readable header of hdrs and a body too short for its
\* packet id (session: lines 237-238 and 249-251; lap: 355-356; status:
\* 500-502): dropped with `continue` after the header bookkeeping of lines
\* 209-219 has run.  _maybe_emit is skipped.
RecvTruncated(w, hdrs) ==
    /\ workers[w] = "recv"
    /\ workers' = [workers EXCEPT ![w] = "loop"]
    /\ \E hdr \in hdrs :
       \E sl1 \in {HeaderSeen([l |-> lis, st |-> state], hdr)} :
          lis' = sl1.l /\ state' = sl1.st
    /\ UNCHANGED <<stop_event, thread, live_state, wire_pit, gate, since_emit,
                   changes, n_laps, swap, wire_sess,
                   debVars, rainVars>>

\* A datagram that is dropped with `continue`: no readable header, or a
\* readable header and a body too short for its id.
RecvDropped(w) == RecvNoHeader(w) \/ RecvTruncated(w, Headers)

\* recvfrom times out after 0.5 s without a datagram.
RecvTimeout(w) ==
    /\ workers[w] = "recv"
    /\ workers' = [workers EXCEPT ![w] = "loop"]
    /\ UNCHANGED <<lis, state, stop_event, thread, live_state, wire_pit, gate,
                   since_emit, changes, n_laps, swap, wire_sess,
                   debVars, rainVars>>

\* recvfrom raises an OSError other than a timeout (lines 202-203): break,
\* then sock.close() (line 584) and the thread ends.
RecvError(w) ==
    /\ workers[w] = "recv"
    /\ workers' = [workers EXCEPT ![w] = "sock_error"]
    /\ UNCHANGED <<lis, state, stop_event, thread, live_state, wire_pit, gate,
                   since_emit, changes, n_laps, swap, wire_sess,
                   debVars, rainVars>>

\* self.debug: True unless the owner passes debug=False (line 108; the
\* application passes its udp_debug setting, True by default: config.py,
\* line 16).
Debug == TRUE

\* A datagram with a readable header whose processing raises.  Nothing in
\* the loop body outside recvfrom (lines 194-203) and the callback (lines
\* 710-714) is inside a try: an exception there leaves _run and ends the
\* thread, and sock.close() (line 584) is not reached.  The first such place
\* is the debug print of lines 222-225, after the header bookkeeping; print
\* raises when the standard output is closed or its pipe is broken.
HandlerRaises(w, hdrs) ==
    /\ Debug
    /\ workers[w] = "recv"
    /\ workers' = [workers EXCEPT ![w] = "crashed"]
    /\ \E hdr \in hdrs :
       \E sl1 \in {HeaderSeen([l |-> lis, st |-> state], hdr)} :
          lis' = sl1.l /\ state' = sl1.st
    /\ UNCHANGED <<stop_event, thread, live_state, wire_pit, gate, since_emit,
                   changes, n_laps, swap, wire_sess,
                   debVars, rainVars>>

\* How often the end of worker w has been reported to the owner.  The owner
\* hears from the listener in two ways only: start() (lines 177-180), which
\* returns as soon as the thread is started, before _run creates and binds
\* the socket, and on_state, which is called with self.state from
\* _update_field_metrics_and_emit alone.  An OSError of bind leaves _run
\* inside the thread; `except OSError: break` (lines 202-203) goes to
\* sock.close() and the end of _run.  Neither calls the owner.
FailureReports(w) ==
    0

\* What one worker step is: the scheduler runs a started thread, and
\* recvfrom returns after at most the 0.5 s timeout (line 191).
WorkerRuns(w) ==
    /\ w \in DOMAIN workers
    /\ WorkerBind(w) \/ WorkerCheck(w) \/ RecvTimeout(w)

InitDebIdle ==
    /\ deb = DebNew(DebListenerN, DebListenerMaxAge)
    /\ deb_n = 0 /\ wall = 0 /\ deb_ret = None /\ run_val = None
    /\ run_len = 0 /\ run_start = 0 /\ run_fast = TRUE /\ run_emits = 0

\* What the lap buffers of one car can hold in mid-session, in tenths of a
\* second, with the car's current category: no lap at all; two laps on
\* slicks and two on intermediates; two and one; two on slicks, one on
\* intermediates and one on wets; two on each compound; two on slicks and
\* two on intermediates that are 25 s slower.
FieldProfiles ==
    {[laps |-> EmptyLaps, cat |-> None],
     [laps |-> [SLICK |-> <<900, 904>>, INTER |-> <<950, 958>>, WET |-> <<>>],
      cat |-> Some("INTER")],
     [laps |-> [SLICK |-> <<900, 904>>, INTER |-> <<950>>, WET |-> <<>>],
      cat |-> Some("INTER")],
     [laps |-> [SLICK |-> <<900, 904>>, INTER |-> <<950>>, WET |-> <<990>>],
      cat |-> Some("WET")],
     [laps |-> [SLICK |-> <<900, 904>>, INTER |-> <<950, 958>>,
                WET |-> <<990, 994>>],
      cat |-> Some("WET")],
     [laps |-> [SLICK |-> <<900, 904>>, INTER |-> <<1150, 1160>>, WET |-> <<>>],
      cat |-> Some("INTER")]}

\* A listener in mid-session: its worker is at the loop test, the fields
\* have changed since the last emission, which is emit_interval or more
\* ago, and each car's buffers hold the laps of one of FieldProfiles.
InitLisField ==
    /\ \E prof \in [Slots -> FieldProfiles] :
          lis = [ListenerNew EXCEPT
                    !.car_laps = [i \in Slots |-> prof[i].laps],
                    !.tyre_cat = [i \in Slots |-> prof[i].cat],
                    !.last_tyre_cat = [i \in Slots |-> prof[i].cat],
                    !.player_idx = Some(0),
                    !.session_uid = Some(1),
                    !.last_session_uid = Some(1),
                    !.dirty = TRUE]
    /\ state = [LiveStateNew EXCEPT !.session_uid = Some(1)]
    /\ stop_event = FALSE
    /\ thread = Some(1)
    /\ workers = <<"loop">>
    /\ live_state = None
    /\ wire_pit = [i \in Slots |-> 0]
    /\ gate = None
    /\ since_emit = None
    /\ changes = TRUE
    /\ n_laps = 0
    /\ swap = [i \in Slots |-> NoSwap]
    /\ wire_sess = NoReadings

\* What the slick buffer of the player's car can hold in mid-session, in
\* tenths of a second: nothing, two laps, three close laps, three laps with
\* one slow lap, five laps that are 5 s apart.
RobustBufs ==
    {<<>>, <<900, 904>>, <<900, 904, 908>>, <<900, 904, 990>>,
     <<900, 950, 1000, 1050, 1100>>}
RobustSlots == {0}
RobustLapTimes == {90500, 93000, 124000, 126000}

\* A listener in mid-session: its worker is at the loop test, the player
\* drives car 0 on slicks, and the per-car buffer of car 0 and the player's
\* reference buffer hold the laps of one of RobustBufs, the last of which
\* is the car's last lap time.
InitLisRobust ==
    /\ \E buf \in RobustBufs :
          lis = [ListenerNew EXCEPT
                    !.car_laps[0]["SLICK"] = buf,
                    !.your_laps["SLICK"] = buf,
                    !.last_lap_ms[0] =
                        IF buf = <<>> THEN None ELSE Some(buf[Len(buf)] * 100),
                    !.last_lap_ms_by_car[0] =
                        IF buf = <<>> THEN None ELSE Some(buf[Len(buf)] * 100),
                    !.tyre_cat = [i \in Slots |-> Some("SLICK")],
                    !.tyre_visual = [i \in Slots |-> Some(16)],
                    !.last_tyre_cat = [i \in Slots |-> Some("SLICK")],
                    !.player_idx = Some(0),
                    !.session_uid = Some(1),
                    !.last_session_uid = Some(1)]
    /\ state = [LiveStateNew EXCEPT !.session_uid = Some(1)]
    /\ stop_event = FALSE
    /\ thread = Some(1)
    /\ workers = <<"loop">>
    /\ live_state = None
    /\ wire_pit = [i \in Slots |-> 0]
    /\ gate = None
    /\ since_emit = None
    /\ changes = FALSE
    /\ n_laps = 0
    /\ swap = [i \in Slots |-> NoSwap]
    /\ wire_sess = NoReadings

InitAll == InitDeb /\ InitRain /\ InitLis
InitRobust == InitDebIdle /\ InitRain /\ InitLisRobust
InitField == InitDebIdle /\ InitRain /\ InitLisField
InitOne == InitDebIdle /\ InitRain /\ InitLis

NextDeb == DebStep /\ UNCHANGED <<rainVars, lisVars>>

NextRain == HystStep /\ UNCHANGED <<debVars, lisVars>>

NextAdvice == AdviceStep /\ UNCHANGED <<debVars, lisVars>>

NextSlick == SlickStep /\ UNCHANGED <<debVars, lisVars>>

\* One _expected_pace_from_rows call; pace_call keeps its arguments and
\* what it returned.
PaceCall ==
    /\ \E track \in PaceTracks, tyre \in PaceTyres, rows \in PaceRows :
       \E r \in {ExpectedPaceFromRows(baseline_cache, track, tyre, rows)} :
          /\ baseline_cache' = r.cache
          /\ pace_call' = Some([key |-> PaceKey(track, tyre), tyre |-> tyre,
                                rows |-> rows, ret |-> r.ret])
    /\ UNCHANGED <<re, re_in, re_out, re_hist, re_flips, re_runs, re_scen,
                   debVars, lisVars>>

\* PaceStep seconds pass: every cache entry ages (from PaceTtl on all ages
\* behave alike).
PaceWait ==
    /\ baseline_cache' =
          [k \in PaceKeys |->
              IF IsSome(baseline_cache[k])
              THEN Some([Val(baseline_cache[k]) EXCEPT
                            !.age = Min2(@ + PaceStep, PaceTtl)])
              ELSE None]
    /\ UNCHANGED <<re, re_in, re_out, re_hist, re_flips, re_runs, re_scen,
                   pace_call, debVars, lisVars>>

\* The baseline-pace cache: calls, and time passing between them.
NextPace ==
    \/ PaceCall
    \/ PaceWait

\* Session packets with readings inside and outside the signals' ranges,
\* and with and without forecast samples.
GlitchSessions ==
    {[weather_raw |-> 0, sc_raw |-> 0, fc |-> << <<0, 20, 1>>, <<5, 10, 1>> >>],
     [weather_raw |-> 4, sc_raw |-> 1, fc |-> << <<0, 70, 4>>, <<5, 60, 4>> >>],
     [weather_raw |-> 9, sc_raw |-> 7, fc |-> <<>>]}

\* The debounced signals: one worker, session traffic, time in ticks.
NextGlitch ==
    \/ StartOnce
    \/ Tick
    \/ \E w \in DOMAIN workers : WorkerBind(w)
    \/ \E w \in DOMAIN workers : WorkerCheck(w)
    \/ \E w \in DOMAIN workers : RecvTimeout(w)
    \/ \E w \in DOMAIN workers : RecvSession(w, GlitchSessions)

\* Headers whose player-index byte lies inside the slots, just past them,
\* and at the end of the byte's range.
PlayerHeaders ==
    {[sessionUID |-> 1, playerCarIndex |-> p] : p \in {0, 1, NCars, 255}}
PlayerSlots == {0}
PlayerVisuals == {16, 7}
PlayerLapTimes == {90000}

\* The player's slot: one worker, lap and status traffic under any of the
\* player headers, time in steps of 1 s.
NextPlayer ==
    \/ StartOnce
    \/ Wait
    \/ \E w \in DOMAIN workers : WorkerBind(w)
    \/ \E w \in DOMAIN workers : WorkerCheck(w)
    \/ \E w \in DOMAIN workers : RecvTimeout(w)
    \/ \E w \in DOMAIN workers :
          RecvLapPkts(w, PlayerHeaders, LapPackets({1}, PlayerLapTimes, {}))
    \/ \E w \in DOMAIN workers :
          RecvStatusFrom(w, PlayerHeaders, PlayerSlots, PlayerVisuals,
                         {"returns"})

\* Tyre tracking: one worker, lap and status traffic, time in steps of 1 s.
NextTyres ==
    \/ StartOnce
    \/ Wait
    \/ \E w \in DOMAIN workers : WorkerBind(w)
    \/ \E w \in DOMAIN workers : WorkerCheck(w)
    \/ \E w \in DOMAIN workers : RecvOther(w)
    \/ \E w \in DOMAIN workers : RecvDropped(w)
    \/ \E w \in DOMAIN workers : RecvTimeout(w)
    \/ \E w \in DOMAIN workers : RecvLap(w, TyreSlots, TyreLapTimes, TyrePits)
    \/ \E w \in DOMAIN workers : RecvStatus(w, TyreSlots, TyreVisuals)

\* The emission gate: one worker, lap and status traffic, time in ticks.
NextGate ==
    \/ StartOnce
    \/ Tick
    \/ \E w \in DOMAIN workers : WorkerBind(w)
    \/ \E w \in DOMAIN workers : WorkerCheck(w)
    \/ \E w \in DOMAIN workers : RecvOther(w)
    \/ \E w \in DOMAIN workers : RecvDropped(w)
    \/ \E w \in DOMAIN workers : RecvTimeout(w)
    \/ \E w \in DOMAIN workers : RecvLap(w, GateSlots, GateLapTimes, {})
    \/ \E w \in DOMAIN workers : RecvStatus(w, GateSlots, GateVisuals)

\* Session data: one worker, session traffic, time in ticks.
NextSession ==
    \/ StartOnce
    \/ Tick
    \/ \E w \in DOMAIN workers : WorkerBind(w)
    \/ \E w \in DOMAIN workers : WorkerCheck(w)
    \/ \E w \in DOMAIN workers : RecvOther(w)
    \/ \E w \in DOMAIN workers : RecvDropped(w)
    \/ \E w \in DOMAIN workers : RecvTimeout(w)
    \/ \E w \in DOMAIN workers : RecvSession(w, Sessions)

\* Packet formats: one worker; lap, status and truncated datagrams of the
\* listener's format and of a foreign one.
NextFormat ==
    \/ StartOnce
    \/ Tick
    \/ \E w \in DOMAIN workers : WorkerBind(w)
    \/ \E w \in DOMAIN workers : WorkerCheck(w)
    \/ \E w \in DOMAIN workers : RecvTimeout(w)
    \/ \E w \in DOMAIN workers :
          RecvLapPkts(w, NativeHeaders \cup ForeignHeaders,
                      LapPackets(FormatSlots, FormatLapTimes, {}))
    \/ \E w \in DOMAIN workers :
          RecvStatusFrom(w, NativeHeaders \cup ForeignHeaders, FormatSlots,
                         FormatVisuals, {"returns"})
    \/ \E w \in DOMAIN workers :
          RecvTruncated(w, NativeHeaders \cup ForeignHeaders)

\* The plausibility band: one worker, lap packets with lap times inside and
\* outside the band, status packets that change tyres on track.
NextBand ==
    \/ StartOnce
    \/ \E w \in DOMAIN workers : WorkerBind(w)
    \/ \E w \in DOMAIN workers : WorkerCheck(w)
    \/ \E w \in DOMAIN workers : RecvTimeout(w)
    \/ \E w \in DOMAIN workers : RecvLap(w, BandSlots, BandLapTimes, {})
    \/ \E w \in DOMAIN workers : RecvStatus(w, BandTyreSlots, BandVisuals)

\* Forecast data: one worker, session packets with forecast samples good
\* and bad, time in ticks.
NextForecast ==
    \/ StartOnce
    \/ Tick
    \/ \E w \in DOMAIN workers : WorkerBind(w)
    \/ \E w \in DOMAIN workers : WorkerCheck(w)
    \/ \E w \in DOMAIN workers : RecvDropped(w)
    \/ \E w \in DOMAIN workers : RecvTimeout(w)
    \/ \E w \in DOMAIN workers : RecvSession(w, FcSessions)

\* Two sessions: one worker at a time, stopped and restarted; lap, status and
\* truncated datagrams of session 1 and of session 2, each session with lap
\* times of its own.
NextUids ==
    \/ StartOnce
    \/ Stop
    \/ Restart
    \/ \E w \in DOMAIN workers : WorkerBind(w)
    \/ \E w \in DOMAIN workers : WorkerCheck(w)
    \/ \E w \in DOMAIN workers : RecvTimeout(w)
    \/ \E w \in DOMAIN workers : RecvNoHeader(w)
    \/ \E w \in DOMAIN workers : RecvTruncated(w, {UidHeaders[1]})
    \/ \E w \in DOMAIN workers : RecvTruncated(w, {UidHeaders[2]})
    \/ \E w \in DOMAIN workers :
          RecvLapPkts(w, {UidHeaders[1]}, UidLapPackets(1))
    \/ \E w \in DOMAIN workers :
          RecvLapPkts(w, {UidHeaders[2]}, UidLapPackets(2))
    \/ \E w \in DOMAIN workers :
          RecvStatusFrom(w, {UidHeaders[1], UidHeaders[2]}, UidSlots, UidVisuals,
                         {"returns"})

\* The aggregates of an emission: the worker of a listener in mid-session
\* handles datagrams that carry nothing new, and emits.
NextField ==
    \/ Tick
    \/ Stop
    \/ \E w \in DOMAIN workers : WorkerCheck(w)
    \/ \E w \in DOMAIN workers : RecvTimeout(w)
    \/ \E w \in DOMAIN workers : RecvOther(w)

\* The outlier gate: the worker of a listener in mid-session handles lap
\* packets with new lap times of the player's car.
NextRobust ==
    \/ Wait
    \/ \E w \in DOMAIN workers : WorkerCheck(w)
    \/ \E w \in DOMAIN workers : RecvTimeout(w)
    \/ \E w \in DOMAIN workers :
          RecvLapPkts(w, {[sessionUID |-> 1, playerCarIndex |-> 0]},
                      LapPackets(RobustSlots, RobustLapTimes, {}))

\* Failures: one worker, status traffic with a callback that returns or
\* raises, socket errors and handlers that raise.
NextFaults ==
    \/ StartOnce
    \/ Stop
    \/ Tick
    \/ \E w \in DOMAIN workers : WorkerBind(w)
    \/ \E w \in DOMAIN workers : WorkerCheck(w)
    \/ \E w \in DOMAIN workers : RecvTimeout(w)
    \/ \E w \in DOMAIN workers : RecvError(w)
    \/ \E w \in DOMAIN workers : HandlerRaises(w, Headers)
    \/ \E w \in DOMAIN workers :
          RecvStatusFrom(w, Headers, GateSlots, GateVisuals, {"returns", "raises"})

\* The thread life cycle: any sequence of start() and stop().
NextThreads ==
    \/ Start
    \/ Stop
    \/ Wait
    \/ \E w \in DOMAIN workers : WorkerBind(w)
    \/ \E w \in DOMAIN workers : WorkerCheck(w)
    \/ \E w \in DOMAIN workers : RecvOther(w)
    \/ \E w \in DOMAIN workers : RecvDropped(w)
    \/ \E w \in DOMAIN workers : RecvTimeout(w)
    \/ \E w \in DOMAIN workers : RecvStatus(w, GateSlots, GateVisuals)

vars == <<debVars, rainVars, lisVars>>

\* The scheduling of the worker threads: a thread that can take a step
\* takes one, and a blocked recvfrom returns.
WorkersFair == \A w \in 1..MaxThreads : WF_vars(WorkerRuns(w))

SpecDeb == InitAll /\ [][NextDeb]_vars
SpecRain == InitOne /\ [][NextRain]_vars
SpecAdvice == InitOne /\ [][NextAdvice]_vars
SpecSlick == InitOne /\ [][NextSlick]_vars
SpecPace == InitOne /\ [][NextPace]_vars
SpecTyres == InitOne /\ [][NextTyres]_vars
SpecGate == InitOne /\ [][NextGate]_vars
SpecSession == InitOne /\ [][NextSession]_vars
SpecForecast == InitOne /\ [][NextForecast]_vars
SpecBand == InitOne /\ [][NextBand]_vars
SpecGlitch == InitOne /\ [][NextGlitch]_vars
SpecPlayer == InitOne /\ [][NextPlayer]_vars
SpecFormat == InitOne /\ [][NextFormat]_vars
SpecUids == InitOne /\ [][NextUids]_vars
SpecField == InitField /\ [][NextField]_vars
SpecRobust == InitRobust /\ [][NextRobust]_vars
SpecFaults == InitOne /\ [][NextFaults]_vars
SpecStop == InitOne /\ [][NextThreads]_vars /\ WorkersFair
SpecThreads == InitOne /\ [][NextThreads]_vars

\* The emission gate with a worker that keeps running and a clock that keeps
\* advancing: a worker that can take a step of its own (bind, loop test, a
\* receive that times out after 0.5 s) eventually takes one, and time passes.
EmitFair == WorkersFair /\ WF_vars(Tick)

SpecEmit == InitOne /\ [][NextGate]_vars /\ EmitFair

(***************************************************************************)
(* Properties of _Debounce (SpecDeb)                                       *)
(***************************************************************************)

\* C1: in a run of identical readings whose updates all fall inside max_age
\* of the run's first reading, every update before the n-th returns None,
\* and the n-th update returns the reading: exactly one emission in n calls.
C1_DebounceRun ==
    (run_len >= 1 /\ run_fast) =>
        /\ run_len < deb.n => (deb_ret = None /\ run_emits = 0)
        /\ run_len = deb.n => (deb_ret = run_val /\ run_emits = 1)

\* A fast run that has just reached n readings and emitted.
C1_Witness ==
    /\ run_len = deb.n
    /\ run_fast
    /\ IsSome(deb_ret)
    /\ run_emits = 1

(***************************************************************************)
(* Properties of RainEngine.update (SpecRain)                              *)
(***************************************************************************)
WetFlipped(h) == h.wet_before # h.wet_after
FullWetFlipped(h) == h.fw_before # h.fw_after

\* C2: the wet-mode flag flips at most once inside a streak of updates with
\* an unchanged wetness regime, and an update whose regime differs from the
\* previous update's (either half of a wobble) never flips it; the same
\* holds for the full-wet flag over updates that leave wet-mode active.
C2_HysteresisGated ==
    /\ re_flips.wet <= 1
    /\ re_flips.fw_gated <= 1
    /\ Len(re_hist) = 2 =>
         /\ re_hist[1].wet_regime # re_hist[2].wet_regime
                => ~WetFlipped(re_hist[1])
         /\ (/\ re_hist[1].fw_regime # re_hist[2].fw_regime
             /\ re_hist[1].wet_after /\ re_hist[2].wet_after)
                => ~FullWetFlipped(re_hist[1])

\* Full-wet mode switched on once inside wet-mode and held beyond its hold
\* count.
C2_Witness ==
    /\ re.is_wet_mode /\ re.is_fullwet_mode
    /\ re.wet_on_counter > wet_hold_on_updates
    /\ re_flips.wet <= 1
    /\ re_flips.fw_gated = 1

\* C2 as stated, for both machines without regard to the wet-mode gate: two
\* consecutive updates in one regime never both flip a flag, and an update
\* whose regime differs from the previous one never flips it.
C2_BothMachines ==
    Len(re_hist) = 2 =>
        /\ re_hist[1].wet_regime = re_hist[2].wet_regime
               => ~(WetFlipped(re_hist[1]) /\ WetFlipped(re_hist[2]))
        /\ re_hist[1].fw_regime = re_hist[2].fw_regime
               => ~(FullWetFlipped(re_hist[1]) /\ FullWetFlipped(re_hist[2]))
        /\ re_hist[1].wet_regime # re_hist[2].wet_regime
               => ~WetFlipped(re_hist[1])
        /\ re_hist[1].fw_regime # re_hist[2].fw_regime
               => ~FullWetFlipped(re_hist[1])

\* C20: after every update, full-wet mode implies wet-mode, and with
\* wet-mode inactive the full-wet flag is off and both full-wet counters
\* are 0; the full-wet counters advance only in updates that leave wet-mode
\* active.
C20_FullWetInsideWet ==
    /\ [](/\ re.is_fullwet_mode => re.is_wet_mode
          /\ ~re.is_wet_mode =>
                /\ ~re.is_fullwet_mode
                /\ re.wet_on_counter = 0 /\ re.wet_off_counter = 0)
    /\ [][(\/ re'.wet_on_counter > re.wet_on_counter
            \/ re'.wet_off_counter > re.wet_off_counter) => re'.is_wet_mode]_vars

\* The last update switched wet-mode off while full-wet mode was on.
C20_Witness ==
    /\ Len(re_hist) >= 1
    /\ re_hist[1].fw_before /\ re_hist[1].wet_before
    /\ ~re_hist[1].wet_after
    /\ ~re.is_wet_mode /\ ~re.is_fullwet_mode

\* The wetness hint of a weather-enum median (doubled): 0 up to 2, 0.45 for
\* 3, 0.80 for 4, 0.95 from 5 on, the median truncated to an integer.
WeatherHint(med2) ==
    IF med2 < 2 * 3 THEN 0
    ELSE IF med2 < 2 * 4 THEN 4500
    ELSE IF med2 < 2 * 5 THEN 8000 ELSE 9500

\* C21: whenever the weather-enum median is available, the wetness an
\* update returns is not below the weather hint of that median, whatever
\* the other partial signals, the temperature boost and the SC boost.
C21_WeatherFloorHolds ==
    (IsSome(re_out) /\ IsSome(MedOf(re.weather))) =>
        Val(re_out).wetness >= WeatherHint(Val(MedOf(re.weather)))

\* An update in rain (weather 3 or more) whose fused score lies below the
\* hint: the floor lifts the returned wetness to the hint.
C21_Witness ==
    /\ IsSome(re_out) /\ IsSome(MedOf(re.weather))
    /\ Val(MedOf(re.weather)) >= 2 * 3
    /\ Val(re_out).fused_raw < WeatherHint(Val(MedOf(re.weather)))
    /\ Val(re_out).wetness = WeatherHint(Val(MedOf(re.weather)))

\* C28: an update whose wetness lies strictly between the off and the on
\* threshold leaves the wet-mode flag unchanged and lowers both wet-mode
\* counters by exactly one, not below 0; and the flag changes only in an
\* update at whose end the counter of the new side has reached its hold
\* count.
C28_DeadZoneDecay ==
    [][(re_out' # re_out \/ re' # re) =>
        /\ Regime(Val(re_out').wetness, on_th, off_th) = "dead" =>
              /\ re'.is_wet_mode = re.is_wet_mode
              /\ re'.on_counter = (IF re.on_counter > 0 THEN re.on_counter - 1 ELSE 0)
              /\ re'.off_counter = (IF re.off_counter > 0 THEN re.off_counter - 1 ELSE 0)
        /\ (~re.is_wet_mode /\ re'.is_wet_mode) => re'.on_counter >= hold_on_updates
        /\ (re.is_wet_mode /\ ~re'.is_wet_mode) => re'.off_counter >= hold_off_updates]_vars

\* A dead-zone update that left a counter above 0: it stood at 2 or more
\* before and was lowered, not reset.
C28_Witness ==
    /\ Len(re_hist) >= 1 /\ re_hist[1].wet_regime = "dead"
    /\ re_hist[1].wet_before = re_hist[1].wet_after
    /\ (re.on_counter >= 1 \/ re.off_counter >= 1)

BufferFields ==
    {"inter_share", "delta_is", "rain_next", "track_temp", "weather",
     "wet_share", "delta_wi"}

\* C29: after every update at time t, each sample in a rolling buffer (and
\* so each sample a median is taken over) was pushed no earlier than
\* t - window_s; a signal that has been None for longer than window_s has
\* an empty buffer and no median.
C29_SamplesInsideWindow ==
    \A f \in BufferFields :
        \A i \in 1..Len(re[f]) : re[f][i][1] >= 0 - window_s

IsBoxIn12(advice) == advice.action \in {"BOX IN 1", "BOX IN 2"}

\* C3: fed nothing but the heavy-rain arguments (weather 4, share 0.6,
\* delta -1.2 s, forecast 70 %, slicks, 20 laps, no safety car) from a
\* fresh engine, wet-mode is active from the hold_on_updates-th update on
\* and the advice is BOX IN 1 or 2 for Intermediate.
C3_HeavyRainBoxIn ==
    (re_scen.ok /\ re_scen.n >= hold_on_updates) =>
        /\ re.is_wet_mode
        /\ IsBoxIn12(Val(re_out).advice)
        /\ Val(re_out).advice.target = Some("Intermediate")

\* The third heavy-rain update in a row, still advising the stop.
C3_Witness ==
    /\ re_scen.ok /\ re_scen.n = hold_on_updates + 1
    /\ re.is_wet_mode
    /\ Val(re_out).advice.action = "BOX IN 1"
    /\ Val(re_out).advice.target = Some("Intermediate")

\* The heavy-rain arguments with the forecast falling to 20 % in 8 minutes.
IsDryingScenario(in) ==
    /\ in.state = LiveHeavyDrying
    /\ in.current_tyre = "C4"
    /\ in.laps_remaining = 20

\* C4: on slicks with wet-mode active, 20 laps to go and no safety car, a
\* forecast that falls below 25 % within 8 minutes overrides the advice of
\* the update to STAY OUT.
C4_DryingSoonStayOut ==
    (IsSome(re_in) /\ IsDryingScenario(Val(re_in)) /\ re.is_wet_mode) =>
        /\ Val(re_out).advice.action = "STAY OUT"
        /\ Val(re_out).advice.target = None

InUnit(x) == 0 <= x /\ x <= FP

\* C7: after every update the returned wetness and confidence and the
\* full-wetness score lie in [0,1], and with no partial signal available
\* (s0..s4 all None) the fused wetness before floor and boosts is 0.
C7_ScoresBounded ==
    IsSome(re_out) =>
        /\ InUnit(Val(re_out).wetness)
        /\ InUnit(Val(re_out).confidence)
        /\ InUnit(Val(re_out).fullwet)
        /\ Val(re_out).no_signal => Val(re_out).fused_raw = 0

\* An update with none of the partial signals available: wetness 0 and the
\* base confidence.
C7_Witness ==
    /\ IsSome(re_out) /\ Val(re_out).no_signal
    /\ Val(re_out).fused_raw = 0
    /\ Val(re_out).wetness = 0
    /\ Val(re_out).confidence = 1500

(***************************************************************************)
(* Properties of the advice of RainEngine.update (SpecAdvice).             *)
(***************************************************************************)

LastAdvice == Val(re_out).advice

IsStayOut(advice) ==
    advice.action = "STAY OUT" /\ advice.target = None /\ advice.laps = None

\* C22: whenever laps remaining is at most 1 (negative counts included),
\* update returns STAY OUT with no target compound and no lead time,
\* whatever the compound, the mode flags, the scores, the forecast and the
\* safety-car status.
C22_RaceEndingStayOut ==
    (IsSome(re_in) /\ Val(re_in).laps_remaining <= 1) => IsStayOut(LastAdvice)

\* A negative lap count on wets with wet-mode active and full-wet mode off
\* (conditions easing), and still STAY OUT.
C22_Witness ==
    /\ IsSome(re_in) /\ Val(re_in).laps_remaining < 0
    /\ Val(re_in).current_tyre = "Wet"
    /\ re.is_wet_mode /\ ~re.is_fullwet_mode
    /\ IsStayOut(LastAdvice)

\* C23: the advisory of every update is STAY OUT with no target and no
\* lead time, or BOX IN n with n in {1, 2}, lead time n and a target among
\* Intermediate, Wet and C4; its justification is never empty.
C23_AdviceClosedSet ==
    IsSome(re_out) =>
        /\ \/ IsStayOut(LastAdvice)
           \/ \E n \in {1, 2} :
                 /\ LastAdvice.action = (IF n = 1 THEN "BOX IN 1" ELSE "BOX IN 2")
                 /\ LastAdvice.laps = Some(n)
                 /\ LastAdvice.target \in {Some("Intermediate"), Some("Wet"), Some("C4")}
        /\ LastAdvice.reason # ""

\* An update without a tyre name that advises the stop for C4 in 2 laps.
C23_Witness ==
    /\ IsSome(re_in) /\ Val(re_in).current_tyre = ""
    /\ LastAdvice.action = "BOX IN 2" /\ LastAdvice.laps = Some(2)
    /\ LastAdvice.target = Some("C4")
    /\ LastAdvice.reason # ""

\* The player is on Wet or Intermediate with more than one lap to go,
\* wet-mode is inactive after the update and the weather median is absent
\* or below 3.
BackToDryCase ==
    /\ IsSome(re_in)
    /\ Val(re_in).current_tyre \in {"Wet", " inter", "Intermediate"}
    /\ Val(re_in).laps_remaining > 1
    /\ ~re.is_wet_mode
    /\ (IsNone(MedOf(re.weather)) \/ Val(MedOf(re.weather)) < 2 * 3)

\* Forecast rain median below 25 % and non-slick share median below 0.20.
LowRainLowShare ==
    /\ IsSome(MedOf(re.rain_next)) /\ Val(MedOf(re.rain_next)) < 2 * 25
    /\ IsSome(MedOf(re.inter_share)) /\ 5 * Val(MedOf(re.inter_share)) < 2 * FP

BackToDryAdvice ==
    /\ LastAdvice.action = (IF LowRainLowShare THEN "BOX IN 1" ELSE "BOX IN 2")
    /\ LastAdvice.laps = Some(IF LowRainLowShare THEN 1 ELSE 2)
    /\ LastAdvice.target = Some("C4")

\* The forecast override applies to the update: the forecast falls to 25 %
\* or less within 15 minutes, no safety car, more than 3 laps to go.
DryingOverrideCase ==
    /\ DryingSoon(Val(re_in).state.rain_fc_series)
    /\ Val(re_in).state.safety_car_status \notin {Some(1), Some(2)}
    /\ Val(re_in).laps_remaining > 3

\* C30 as stated: on Wet or Intermediate with more than one lap to go,
\* wet-mode inactive after the update and a weather median absent or below
\* 3, the advisory is BOX IN 1 for a dry compound if the forecast rain
\* median is below 25 % and the non-slick share median below 0.20, and
\* BOX IN 2 for a dry compound otherwise.
C30_BackToDry == BackToDryCase => BackToDryAdvice

\* C30 as amended: in that case the advisory is STAY OUT when the forecast
\* override applies (drying soon, no safety car, more than 3 laps to go),
\* and otherwise BOX IN 1 for a dry compound with a low forecast rain median
\* and a low non-slick share median, BOX IN 2 for a dry compound without.
C30_BackToDryUnlessOverride ==
    BackToDryCase =>
        IF DryingOverrideCase THEN IsStayOut(LastAdvice) ELSE BackToDryAdvice

\* On intermediates in the dry with 2 laps to go: BOX IN 1 for C4.
C30_Witness ==
    /\ BackToDryCase /\ ~DryingOverrideCase /\ LowRainLowShare
    /\ LastAdvice.action = "BOX IN 1" /\ LastAdvice.target = Some("C4")

\* The last update was made on the Wet compound with more than one lap to
\* go.
OnWetCase ==
    /\ IsSome(re_in)
    /\ TyreNorm(Val(re_in).current_tyre) = "WET"
    /\ Val(re_in).laps_remaining > 1

\* C33: on the Wet compound with more than one lap to go, an update whose
\* full-wetness score is at least wet_on_th never advises a switch to
\* Intermediate.
C33_NoInterInFullWet ==
    (OnWetCase /\ Val(re_out).fullwet >= wet_on_th) =>
        LastAdvice.target # Some("Intermediate")

(***************************************************************************)
(* Properties of the baseline-pace cache (SpecPace).                       *)
(***************************************************************************)

\* What the call of this step computes from its rows.
Recomputed == PaceMedian(RowTimes(TyreNorm(Val(pace_call').tyre), Val(pace_call').rows))

\* C40: a call for a key whose median was cached less than 10 s ago returns
\* the cached median and leaves the cache as it is, whatever its rows; a
\* call 10 s or more after the key's cache fill (or with nothing cached)
\* returns the median of its rows and caches it with the time of the call;
\* a call that returns no median leaves the cache as it is.
C40_PaceCache ==
    [][PaceCall =>
          LET k == Val(pace_call').key
              before == baseline_cache[k]
              ret == Val(pace_call').ret
          IN /\ (IsSome(before) /\ Val(before).age < 10) =>
                   /\ ret = Some(Val(before).med)
                   /\ baseline_cache' = baseline_cache
             /\ (IsNone(before) \/ Val(before).age >= 10) =>
                   /\ ret = Recomputed
                   /\ IsSome(ret) =>
                         baseline_cache' =
                            [baseline_cache EXCEPT
                                ![k] = Some([age |-> 0, med |-> Val(ret)])]
             /\ IsNone(ret) => baseline_cache' = baseline_cache]_vars

\* A call with other rows 5 s after the fill was answered from the cache:
\* the median of the first rows (92 s) is returned, not that of the rows
\* passed (88 s).
C40_Witness ==
    /\ IsSome(pace_call)
    /\ Val(pace_call).key = <<"Monza", "C4">>
    /\ Val(pace_call).ret = Some(184)
    /\ PaceMedian(RowTimes("C4", Val(pace_call).rows)) = Some(176)
    /\ baseline_cache[<<"Monza", "C4">>] = Some([age |-> 5, med |-> 184])

(***************************************************************************)
(* Properties of the advice on a slick compound (SpecSlick).               *)
(***************************************************************************)

\* The player is on a slick compound with more than one lap to go.
OnSlickCase ==
    /\ IsSome(re_in)
    /\ Val(re_in).current_tyre \in {"c4", "SLICK"}
    /\ Val(re_in).laps_remaining > 1

\* The inter-vs-slick pace-delta median is below -0.30 s.
InterFaster ==
    IsSome(MedOf(re.delta_is)) /\ 10 * Val(MedOf(re.delta_is)) < 0 - 2 * 3 * FP

\* The lead time on slicks with wet-mode active.
SlickLeadTime ==
    IF InterFaster THEN 1
    ELSE IF Val(re_in).state.safety_car_status \in {Some(1), Some(2)} THEN 1
    ELSE IF Val(re_out).wetness * 10 > 8 * FP THEN 1 ELSE 2

C36_PublishedAfterRepeat ==
    [][\A s \in Signals :
          state'[s] # state[s] =>
             /\ state'[s] = wire_sess'.raw[s]
             /\ wire_sess.raw[s] = wire_sess'.raw[s]]_vars

\* C36, amended: the published value of a debounced session signal changes
\* to v only in a step whose reading of the signal is v and lies inside the
\* signal's range, and the last reading of the signal inside its range
\* before that step was v as well (readings outside the range are
\* discarded and do not count as frames in between).
C36_PublishedAfterRepeatInRange ==
    [][\A s \in Signals :
          state'[s] # state[s] =>
             /\ state'[s] = wire_sess'.raw[s]
             /\ state'[s] = wire_sess'.ok[s]
             /\ wire_sess.ok[s] = wire_sess'.ok[s]]_vars

\* Weather 4 was published by its second reading, with a reading of 9
\* (outside the range) on the wire before it.
C36_Witness ==
    /\ state.weather = Some(4)
    /\ wire_sess.raw["weather"] = Some(4)
    /\ lis.deb_weather.candidate = Some(4)
    /\ lis.deb_weather.count = 2

(***************************************************************************)
(* Properties of the rolling lap buffers (SpecRobust).                     *)
(***************************************************************************)

\* The rolling lap buffers of listener l: per slot and compound, and the
\* player's reference buffers per compound.
LapBuffers(l) ==
    {l.car_laps[i][c] : i \in Slots, c \in Cats}
    \cup {l.your_laps[c] : c \in Cats}

\* Buffer after is buffer before with one lap accepted: appended at the
\* end, the oldest lap evicted when before was full.
Accepted(before, after) ==
    /\ after # <<>>
    /\ after = Append(IF Len(before) >= LapBufMaxLen THEN Tail(before) ELSE before,
                      after[Len(after)])

\* C39: every rolling lap buffer holds at most 5 laps, and a step changes a
\* buffer only by accepting a lap at its end, evicting the oldest lap when
\* the buffer was full: the buffer holds the most recently accepted laps
\* in acceptance order.
C39_BuffersRolling ==
    /\ [](\A b \in LapBuffers(lis) : Len(b) <= LapBufMaxLen)
    /\ [][/\ \A i \in Slots, c \in Cats :
                \/ lis'.car_laps[i][c] = lis.car_laps[i][c]
                \/ Accepted(lis.car_laps[i][c], lis'.car_laps[i][c])
          /\ \A c \in Cats :
                \/ lis'.your_laps[c] = lis.your_laps[c]
                \/ Accepted(lis.your_laps[c], lis'.your_laps[c])]_vars

\* A full buffer of slot 0 accepted a sixth lap: its oldest lap (90.0 s) is
\* gone and the new lap is at the end.
C39_Witness ==
    \E c \in Cats :
        /\ Len(lis.car_laps[0][c]) = 5
        /\ SubSeq(lis.car_laps[0][c], 1, 4) = <<950, 1000, 1050, 1100>>

(***************************************************************************)
(* Properties of the published player slot (SpecPlayer).                   *)
(***************************************************************************)

\* The step emits the state.
Emitted == since_emit' = Some(0) /\ since_emit # Some(0)

\* C38: whatever the player-index byte of the headers, every emitted state
\* carries a player_car_index inside the slots and the tyre category
\* tracked for exactly that slot, which is the header's slot when that lies
\* inside the slots (so no per-slot array is read at an index outside the
\* slots).
C38_PlayerIndexInRange ==
    /\ [](IsSome(state.player_car_index) =>
             Val(state.player_car_index) \in Slots)
    /\ [][Emitted =>
             /\ IsSome(state'.player_car_index)
             /\ Val(state'.player_car_index) \in Slots
             /\ state'.player_tyre_cat =
                    lis'.tyre_cat[Val(state'.player_car_index)]
             /\ Val(lis'.player_idx) \in Slots =>
                    state'.player_car_index = lis'.player_idx]_vars

\* A state was emitted under a header with player index 255: slot 0 and
\* its Intermediate tyres are published.
C38_Witness ==
    /\ lis.player_idx = Some(255)
    /\ since_emit = Some(0)
    /\ state.player_car_index = Some(0)
    /\ state.player_tyre_cat = Some("INTER")
    /\ lis.tyre_cat[1] = Some("SLICK")

(***************************************************************************)
(* Delivery of changes to the subscriber (SpecEmit).                       *)
(***************************************************************************)

\* C35: whenever the dirty flag is set, an emission (the only thing that
\* clears the flag) eventually follows while a worker keeps running, also
\* when only short datagrams or receive timeouts follow.
C35_DirtyEventuallyEmitted ==
    (lis.dirty /\ Running # {}) ~> (~lis.dirty \/ Running = {})

(***************************************************************************)
(* Properties of the tyre tracking of F1UDPListener (SpecTyres).           *)
(***************************************************************************)

\* The category a step's status packet reports for slot i, when the step
\* handles a status packet whose visual compound for the slot is new.
NewVisual(i) ==
    /\ lis'.tyre_visual[i] # lis.tyre_visual[i]
    /\ IsSome(lis.tyre_cat[i])
    /\ CatOfVisual(Val(lis'.tyre_visual[i])) # Val(lis.tyre_cat[i])

ReportedCat(i) == CatOfVisual(Val(lis'.tyre_visual[i]))

InPit(p) == p \in {1, 2}

\* C5: while the telemetry shows a slot in the pit lane or in the pit box, a
\* status packet with a new visual compound is stored as pending and the
\* slot's current category does not change; in the step in which the
\* telemetry shows the slot back on track, the pending compound becomes the
\* current category and the pending value is cleared.
C5_PitCyclePending ==
    [][\A i \in Slots :
          /\ (InPit(wire_pit[i]) /\ InPit(wire_pit'[i]) /\ NewVisual(i)) =>
                /\ lis'.tyre_cat[i] = lis.tyre_cat[i]
                /\ lis'.pending_tyre[i] = Some(ReportedCat(i))
          /\ (InPit(wire_pit[i]) /\ wire_pit'[i] = 0 /\ IsSome(lis.pending_tyre[i])) =>
                /\ lis'.tyre_cat[i] = lis.pending_tyre[i]
                /\ lis'.pending_tyre[i] = None]_vars

\* The step handles the first lap-time event of slot i after an on-track
\* tyre change, and the lap is at least outlap_slow_ms slower than the
\* slot's last valid lap before the change.
SlowLapAfterSwap(i) ==
    /\ swap[i].armed
    /\ IsSome(swap[i].prev_ms)
    /\ lis'.last_lap_ms[i] # lis.last_lap_ms[i]
    /\ IsSome(lis'.last_lap_ms[i])
    /\ Val(lis'.last_lap_ms[i]) - Val(swap[i].prev_ms) >= outlap_slow_ms

\* C6: a tyre change of a slot on track from a known category is visible in
\* the slot's category in the same step, and a next lap of the slot that is
\* at least 8000 ms slower than its previous accepted lap is flagged as an
\* out-lap and enters none of the slot's lap buffers.
C6_SwapOutLap ==
    [][\A i \in Slots :
          /\ (wire_pit[i] = 0 /\ wire_pit'[i] = 0 /\ NewVisual(i)) =>
                lis'.tyre_cat[i] = Some(ReportedCat(i))
          /\ SlowLapAfterSwap(i) =>
                /\ lis'.lap_flag[i] = "OUT"
                /\ lis'.car_laps[i] = lis.car_laps[i]
                /\ (lis'.player_idx = Some(i) => lis'.your_laps = lis.your_laps)]_vars

\* C32: a lap time is appended only to the buffer of the compound the car
\* was on when the lap was set: after an on-track tyre change of slot i, a
\* lap packet that re-reports the last lap time the slot had before the
\* change appends nothing to the slot's buffers (or to the player's
\* reference buffers) and leaves the armed ignore-next-lap flag armed.
C32_StaleLapAfterSwap ==
    [][\A pkt \in LapPackets(TyreSlots, TyreLapTimes, TyrePits) :
          (\E w \in DOMAIN workers : RecvLapPkts(w, Headers, {pkt})) =>
             \A i \in Slots :
                (swap[i].armed /\ swap[i].prev_ms = Some(pkt.last_ms[i])) =>
                   /\ lis'.car_laps[i] = lis.car_laps[i]
                   /\ lis'.ignore_next_lap[i] = lis.ignore_next_lap[i]
                   /\ lis'.player_idx = Some(i) => lis'.your_laps = lis.your_laps]_vars

\* The step handles a lap packet equal to the lap packet before it, or a
\* status packet equal to the status packet before it.
LapPacketRepeated ==
    /\ \E i \in Slots : IsSome(lis.last_lap_ms_by_car[i])
    /\ \E w \in DOMAIN workers :
          RecvLapPkts(w, Headers, {[last_ms |-> WireLaps, pit |-> wire_pit]})

StatusPacketRepeated ==
    /\ \E i \in Slots : IsSome(lis.tyre_visual[i])
    /\ \E w \in DOMAIN workers : RecvStatusFrom(w, Headers, {}, {}, {"returns"})

\* C37: a lap packet or a status packet whose per-slot fields equal those
\* of the packet of the same kind before it changes no slot's last lap
\* time, tyre category, lap validity and flag or rolling buffers, nor the
\* player's reference buffers, and does not set the dirty flag.
C37_RepeatedPacketIdempotent ==
    [][(LapPacketRepeated \/ StatusPacketRepeated) =>
          /\ lis'.last_lap_ms = lis.last_lap_ms
          /\ lis'.tyre_cat = lis.tyre_cat
          /\ lis'.lap_valid = lis.lap_valid
          /\ lis'.lap_flag = lis.lap_flag
          /\ lis'.car_laps = lis.car_laps
          /\ lis'.your_laps = lis.your_laps
          /\ lis'.dirty => lis.dirty]_vars

(***************************************************************************)
(* Properties of the emission gate of F1UDPListener (SpecGate).            *)
(***************************************************************************)

\* C8: the callback is invoked only by a pass through the gate that finds
\* the dirty flag set and at least emit_interval elapsed since the previous
\* emission, with a state-changing packet handled since that emission; the
\* pass clears the dirty flag and stores the current time as the emission
\* time.
C8_EmissionGate ==
    IsSome(gate) =>
        /\ Val(gate).dirty
        /\ IsSome(Val(gate).elapsed) => Val(Val(gate).elapsed) >= emit_interval
        /\ Val(gate).changes
        /\ ~Val(gate).dirty_after
        /\ Val(gate).stamp = 0

\* A second emission, exactly emit_interval after the first.
C8_Witness ==
    /\ IsSome(gate)
    /\ Val(gate).elapsed = Some(emit_interval)
    /\ Val(gate).dirty /\ Val(gate).changes
    /\ live_state = StateRef

(***************************************************************************)
(* Properties of the delivered state (SpecSession).                        *)
(***************************************************************************)

\* C9: the object handed to the subscriber does not change after the
\* callback: once the subscriber holds it, no step of the worker changes
\* what the subscriber reads through it.
C9_DeliveredSnapshot ==
    [][live_state = StateRef => state' = state]_vars

(***************************************************************************)
(* Properties of the thread life cycle (SpecThreads).                      *)
(***************************************************************************)

InLoop == {w \in DOMAIN workers : workers[w] \in {"loop", "recv"}}

\* C10: whatever the sequence of start() and stop(), at most one worker
\* thread is in the receive/decode loop.
C10_SingleWorker == Cardinality(InLoop) <= 1

(***************************************************************************)
(* Properties of stopping the worker (SpecStop).                           *)
(***************************************************************************)

\* C11: once stop() has set the stop event and no start() clears it again,
\* every worker eventually observes it at its loop test, leaves the loop and
\* closes its socket; and a worker that has left the loop stays out of it,
\* so it decodes no datagram after observing the event.
C11_StopObserved ==
    /\ (<>[]stop_event) => <>[](Running = {})
    /\ [][\A w \in DOMAIN workers :
            workers[w] = "exited" => workers'[w] = "exited"]_vars

\* The stop event is set and a worker that was in its loop has observed it.
C11_Witness ==
    /\ stop_event
    /\ \E w \in DOMAIN workers : workers[w] = "exited"

(***************************************************************************)
(* Properties of the packet format of a datagram (SpecFormat).             *)
(***************************************************************************)

\* The step receives a datagram with a complete header of a foreign packet
\* format: a lap packet, a status packet or a truncated one.
ForeignDatagramReceived ==
    \E w \in DOMAIN workers :
        \/ RecvLapPkts(w, ForeignHeaders,
                       LapPackets(FormatSlots, FormatLapTimes, {}))
        \/ RecvStatusFrom(w, ForeignHeaders, FormatSlots, FormatVisuals,
                          {"returns"})
        \/ RecvTruncated(w, ForeignHeaders)

\* C24: a datagram whose header is complete but carries an unknown or
\* mismatched packet format is dropped: no session signal, no slot state,
\* no player or session tracking and not the dirty flag change.
C24_ForeignFormatDropped ==
    [][ForeignDatagramReceived => UNCHANGED <<lis, state>>]_vars

(***************************************************************************)
(* Properties of the plausibility band of lap times (SpecBand).            *)
(***************************************************************************)

InBand(ms) == 40000 <= ms /\ ms <= 360000

\* The step handles lap packet pkt.
LapPacketHandled(pkt) ==
    \E w \in DOMAIN workers : RecvLapPkts(w, Headers, {pkt})

\* C25: a lap reading of a slot outside [40000, 360000] ms leaves the
\* slot's last accepted lap time, its lap validity and flag, its armed
\* ignore-next-lap flag and its rolling buffers (the player's reference
\* buffers for the player's slot) as they were, and a lap packet with no
\* reading inside the band does not set the dirty flag.
C25_OutOfBandKeepsSlot ==
    [][\A pkt \in LapPackets(BandSlots, BandLapTimes, {}) :
          LapPacketHandled(pkt) =>
             /\ \A i \in Slots :
                   ~InBand(pkt.last_ms[i]) =>
                      /\ lis'.last_lap_ms[i] = lis.last_lap_ms[i]
                      /\ lis'.lap_valid[i] = lis.lap_valid[i]
                      /\ lis'.lap_flag[i] = lis.lap_flag[i]
                      /\ lis'.ignore_next_lap[i] = lis.ignore_next_lap[i]
                      /\ lis'.car_laps[i] = lis.car_laps[i]
                      /\ lis'.player_idx = Some(i) => lis'.your_laps = lis.your_laps
             /\ (\A i \in Slots : ~InBand(pkt.last_ms[i])) =>
                   (lis'.dirty => lis.dirty)]_vars

\* Slot 1 changed tyres on track after a lap, and the reading that followed
\* lay above the band: the flag is still armed, the lap buffer as it was.
C25_Witness ==
    /\ lis.last_lap_ms_by_car[1] = Some(400000)
    /\ lis.ignore_next_lap[1]
    /\ lis.last_lap_ms[1] = None
    /\ lis.lap_flag[1] = "TYRE_SWAP"
    /\ Len(lis.car_laps[1]["SLICK"]) = 1

\* The player's reference buffers and the rolling buffers of slot p after
\* the lap packet pkt is handled in the current state.
PlayerBuffersAfter(p, pkt) ==
    LET sl == \* the header of the one session: the player is slot 1
              LapPacket(HeaderSeen([l |-> lis, st |-> state],
                                   CHOOSE h \in Headers : TRUE), pkt)
    IN <<sl.l.your_laps, sl.l.car_laps[p]>>

\* C34: with the player in a slot p other than 0, what a lap packet adds to
\* the player's reference buffers and to slot p's rolling buffers does not
\* depend on the packet's data for slot 0: the same packet with any other
\* last lap time for slot 0 leaves the same buffers.
C34_PlayerIndependentOfSlot0 ==
    [][\A pkt \in LapPackets(BandSlots, BandLapTimes, {}) :
          LapPacketHandled(pkt) =>
             \A p \in Slots \ {0} :
                lis'.player_idx = Some(p) =>
                   \A v \in BandLapTimes :
                      PlayerBuffersAfter(p, [pkt EXCEPT !.last_ms[0] = v])
                         = <<lis'.your_laps, lis'.car_laps[p]>>]_vars

(***************************************************************************)
(* Properties of the published forecast series (SpecForecast).             *)
(***************************************************************************)

\* The minute offsets of the samples of a forecast list that lie in range.
GoodOffsets(fc) ==
    {fc[k][1] : k \in {j \in 1..Len(fc) :
                          /\ fc[j][1] \in 0..240
                          /\ fc[j][2] \in 0..100
                          /\ fc[j][3] \in 0..5}}

\* The published series: absent, or not empty, strictly ascending in the
\* minute offset, every entry in range.
SeriesWellFormed(series) ==
    IsSome(series) =>
        LET fc == Val(series)
        IN /\ Len(fc) >= 1
           /\ \A k \in 1..(Len(fc) - 1) : fc[k][1] < fc[k + 1][1]
           /\ \A k \in 1..Len(fc) :
                 /\ 0 <= fc[k][1] /\ fc[k][1] <= 240
                 /\ 0 <= fc[k][2] /\ fc[k][2] <= 100
                 /\ 0 <= fc[k][3] /\ fc[k][3] <= 5

\* C26: after any session packet the published forecast series is absent
\* or a non-empty list strictly ascending in the minute offset with every
\* entry in range (offset 0..240, rain 0..100, weather 0..5); a sample out
\* of range is dropped alone: a newly published series has a sample for
\* every in-range offset of its packet.
C26_ForecastSeriesWellFormed ==
    /\ [] SeriesWellFormed(state.rain_fc_series)
    /\ [][state'.rain_fc_series # state.rain_fc_series =>
            \E pkt \in FcSessions :
                GoodOffsets(pkt.fc) =
                    (IF IsSome(state'.rain_fc_series)
                     THEN {x[1] : x \in {Val(state'.rain_fc_series)[k] :
                               k \in 1..Len(Val(state'.rain_fc_series))}}
                     ELSE {})]_vars

\* The series of the packet with a duplicate offset and two samples out of
\* range: the three good samples, sorted, the later duplicate gone.
C26_Witness ==
    state.rain_fc_series = Some(<< <<2, 20, 1>>, <<10, 30, 2>> >>)

(***************************************************************************)
(* Properties of session changes and dropped datagrams (SpecUids).         *)
(***************************************************************************)

\* A datagram is dropped as too short: shorter than the header, or with a
\* header of either session and too short for the fields of its kind.
ShortDatagramDropped ==
    \E w \in DOMAIN workers :
        \/ RecvNoHeader(w)
        \/ RecvTruncated(w, {UidHeaders[1], UidHeaders[2]})

\* C12: a datagram shorter than the header, or too short for the field
\* region of its kind, is dropped without changing any listener state:
\* session signals, per-slot state, player index, session identifier
\* tracking, player reference buffers and the dirty flag are as before.
C12_ShortDatagramNoMutation ==
    [][ShortDatagramDropped => UNCHANGED <<lis, state>>]_vars

\* The laps of buffer set laps (one buffer per compound), in milliseconds.
LapsMsOf(laps) ==
    UNION {{laps[c][k] * 100 : k \in 1..Len(laps[c])} : c \in Cats}

\* A header with a session identifier other than the last observed one is
\* processed in this step.
SessionChanges == lis'.last_session_uid # lis.last_session_uid

\* C15: whenever a header with a session identifier different from the last
\* observed one is processed, the state of every participant slot is reset:
\* immediately afterwards the rolling per-compound lap buffers of all slots
\* hold no lap of the earlier session, and the session signals are reset.
C15_SessionChangeResets ==
    [][SessionChanges =>
         /\ \A i \in Slots :
               LapsMsOf(lis'.car_laps[i]) \subseteq
                   UidLapTimes[Val(lis'.last_session_uid)]
         /\ state'.weather = None /\ state'.safety_car_status = None
         /\ state'.rain_now_pct = None /\ state'.rain_fc_pct = None]_vars

\* C16: the player's reference-lap buffers are emptied in the step that
\* processes a header whose session identifier differs from the last
\* observed one, so that they never hold laps of two sessions: every lap
\* they hold is a lap of the session last observed.  A step that observes
\* no new session identifier, be it a header repeating the last one or a
\* restart of the worker, removes no lap from them.
C16_ReferenceLapsOfOneSession ==
    /\ [](IsSome(lis.last_session_uid) =>
             LapsMsOf(lis.your_laps) \subseteq
                 UidLapTimes[Val(lis.last_session_uid)])
    /\ [][~SessionChanges =>
             \A c \in Cats : Len(lis'.your_laps[c]) >= Len(lis.your_laps[c])]_vars

\* After laps of session 1, session 2 has been observed; the worker has
\* been restarted, and the second worker has processed a datagram while the
\* reference buffers hold a lap of session 2.
C16_Witness ==
    /\ Len(workers) = 2 /\ workers[2] = "loop"
    /\ lis.last_session_uid = Some(2)
    /\ LapsMsOf(lis.your_laps) # {}
    /\ \E i \in Slots : LapsMsOf(lis.car_laps[i]) \cap UidLapTimes[1] # {}

(***************************************************************************)
(* Properties of failures (SpecFaults).                                    *)
(***************************************************************************)

\* C13: no error raised while processing a datagram, and no exception
\* raised by the subscriber's callback during an emission, ends the worker
\* loop: no worker's thread is ended by an exception of a handler.
C13_WorkerSurvives ==
    \A w \in DOMAIN workers : workers[w] # "crashed"

\* C14: a fatal worker error is reported to the owner exactly once: a bind
\* failure at startup, and any socket error other than a timeout, after
\* which the worker has left its loop for good.
C14_FatalReportedOnce ==
    \A w \in DOMAIN workers :
        workers[w] \in {"bind_failed", "sock_error"} => FailureReports(w) = 1

(***************************************************************************)
(* Properties of the published aggregates (SpecField).                     *)
(***************************************************************************)

\* The cars with two or more buffered laps on either of two compounds.
CarsWithBoth(hi, lo) ==
    {i \in Slots : Len(lis.car_laps[i][hi]) >= 2 /\ Len(lis.car_laps[i][lo]) >= 2}

\* The cars with two or more buffered slick laps and two or more buffered
\* laps on intermediates and wets taken together.
CarsWithSlickAndNonSlick ==
    {i \in Slots :
        /\ Len(lis.car_laps[i]["SLICK"]) >= 2
        /\ Len(lis.car_laps[i]["INTER"]) + Len(lis.car_laps[i]["WET"]) >= 2}

C19_SharesUnavailable ==
    (live_state = StateRef /\ \A i \in Slots : IsNone(lis.tyre_cat[i])) =>
        /\ IsNone(state.inter_share)
        /\ IsNone(state.inter_only_share)
        /\ IsNone(state.wet_share)

(***************************************************************************)
(* Properties of the outlier gate (SpecRobust).                            *)
(***************************************************************************)

\* The lower and the upper median of a non-empty sequence, by rank.
RankMedian(xs, r) ==
    CHOOSE v \in {xs[k] : k \in 1..Len(xs)} :
        /\ Cardinality({k \in 1..Len(xs) : xs[k] < v}) < r
        /\ Cardinality({k \in 1..Len(xs) : xs[k] <= v}) >= r

\* Twice the median of a non-empty sequence.
TwiceMedian(xs) ==
    RankMedian(xs, (Len(xs) + 1) \div 2) + RankMedian(xs, Len(xs) \div 2 + 1)

\* |lap - median(buf)| > max(2.5 s, 3.5 * 1.4826 * MAD(buf)), in tenths of
\* a second and without division: d2 is twice the distance, mad4 four
\* times the median absolute deviation.
IsOutlier(buf, lap_ds) ==
    LET d2 == Abs(2 * lap_ds - TwiceMedian(buf))
        mad4 == TwiceMedian([k \in 1..Len(buf) |->
                                Abs(2 * buf[k] - TwiceMedian(buf))])
    IN d2 > 2 * 25 /\ d2 * 2 * 100000 > 35 * 14826 * mad4

\* What the gate is to return for buffer buf and lap lap_ds.
GateAccepts(buf, lap_ds) == Len(buf) < 3 \/ ~IsOutlier(buf, lap_ds)

\* Slot i has a new last lap time in this step.
NewLap(i) ==
    IsSome(lis'.last_lap_ms[i]) /\ lis'.last_lap_ms[i] # lis.last_lap_ms[i]

\* C18: the outlier gate accepts every lap while the buffer holds fewer
\* than 3 laps, and from 3 laps on rejects a lap exactly when
\* |lap - median| > max(2.5 s, 3.5 * 1.4826 * MAD); a valid new lap of a
\* car is appended to the car's buffer of its compound exactly when the gate
\* accepts it, and no buffer of a car, nor of the player, takes a lap the
\* gate rejects.
C18_RobustGate ==
    [][\A i \in Slots : NewLap(i) =>
          LET x == Val(lis'.last_lap_ms[i]) \div 100
          IN /\ \A c \in Cats :
                  /\ lis'.car_laps[i][c] # lis.car_laps[i][c] =>
                        /\ GateAccepts(lis.car_laps[i][c], x)
                        /\ lis'.car_laps[i][c] = BufAppend(lis.car_laps[i][c], x)
                  /\ lis'.your_laps[c] # lis.your_laps[c] =>
                        /\ GateAccepts(lis.your_laps[c], x)
                        /\ lis'.your_laps[c] = BufAppend(lis.your_laps[c], x)
             /\ (lis'.lap_valid[i] /\ IsSome(lis.tyre_cat[i])) =>
                  LET c == Val(lis.tyre_cat[i])
                  IN GateAccepts(lis.car_laps[i][c], x) =>
                        lis'.car_laps[i][c] = BufAppend(lis.car_laps[i][c], x)
       ]_vars

\* The player's car has set a valid lap 2.6 s off the median of three
\* buffered laps, and neither buffer has taken it.
C18_Witness ==
    /\ lis.last_lap_ms[0] = Some(93000) /\ lis.lap_valid[0]
    /\ Len(lis.car_laps[0]["SLICK"]) >= 3
    /\ \A k \in 1..Len(lis.car_laps[0]["SLICK"]) :
          lis.car_laps[0]["SLICK"][k] # 930
    /\ \A k \in 1..Len(lis.your_laps["SLICK"]) :
          lis.your_laps["SLICK"][k] # 930

====
